---------------------------- MODULE Spec2Model ----------------------------
(***************************************************************************)
(* The parallel dataset pipeline of headless_gen: the orchestrator         *)
(* generateDatasetParallel (producer-consumer.js), the producer worker     *)
(* (producer-worker.js) and the solver workers (solver-worker.js).         *)
(*                                                                         *)
(* Three kinds of threads run in parallel and talk only through FIFO       *)
(* message ports:                                                          *)
(*   - the producer worker: generate() runs synchronously until it awaits  *)
(*     a credit, so it handles a message only while it waits or after it   *)
(*     has returned;                                                       *)
(*   - each solver worker: one message handler that solves a whole batch;  *)
(*   - the main thread: the message handlers, the dispatcher coroutine and *)
(*     the consumer (the async generator body).  A message handler is a    *)
(*     macrotask: it starts only when no continuation of the dispatcher or *)
(*     of the consumer is runnable (MainIdle).                             *)
(*                                                                         *)
(* Left out: the 'progress' messages and stats.generated / stats.saved,    *)
(* which only feed onProgress and are read by no control decision.         *)
(*                                                                         *)
(* More machines share the variables, each with its own initial state     *)
(* while the others are switched off:                                      *)
(*   - MazeSpec: one generateSync call of each generator on a small grid,  *)
(*     followed by the solver worker's handling of the spec it returns;    *)
(*   - RngSpec: the closure seedLCG returns, drawn from repeatedly;        *)
(*   - CodecSpec, SerializeSpec, PoolSpec, ExtractSpec: one call of a      *)
(*     function that keeps no state (the maze codec, serializeExample,     *)
(*     the size of the solver pool, extractLowestFScore).                  *)
(*   - AstarSpec: astar.solveSync pass by pass of its loops;               *)
(*   - KruskalSpec: the carve loop of kruskal.generateSync edge by edge.   *)
(* FairSpec is the pipeline under the scheduling of the event loops;       *)
(* AstarFairSpec, MazeFairSpec and CaFairSpec are loops of synchronous     *)
(* code that run on.                                                       *)
(***************************************************************************)
EXTENDS Integers, Sequences, FiniteSets, TLC

\* ------------------------------------------------------------------ bounds
\* Short runs: every combination of these, with and without failing examples.
MaxBatches == 4
MaxBatchSize == 2
MaxMaxBatchSize == 2
MaxProducerBuffer == 2
MaxWorkers == 2
MaxFaultIdx == 2
\* Long runs: LongBatches initial batches, no failing example, and a
\* maxBatchSize = batchSize + 1 that the batch size reaches.
LongBatches == 7

\* ------------------------------------------------------- program constants
SmallCountLimit == 100
SmallCountWorkers == 2
Half == 65536
LcgMulHi == 25
LcgMulLo == 26125
LcgIncHi == 15470
LcgIncLo == 62303

\* The seeds and modes of the runs explored (seed defaults to 42).
Seeds == {42}
Modes == {"train"}

Min(a, b) == IF a < b THEN a ELSE b
Max(a, b) == IF a > b THEN a ELSE b

\* The generator registry of generators.js.
generators == {"dfs", "kruskal", "searchformer", "wilson", "drunkards_walk",
               "cellular_automata"}

VARIABLES
  opts,                  \* count, seed, mode, generatorId, generatorParams
  faults,                \* the first example index generateSync throws on and
                         \* the first one the solver fails on (-1: none)
  config,                \* batchSize, maxBatchSize, producerBuffer, workers
  numWorkers,
  currentBatchSize,
  availableWorkers,
  notifyWorkerAvailable, \* "null", "live" (resolves a promise of the race the
                         \* dispatcher awaits) or "stale" (of an earlier race)
  generatedBatchQueue,
  batchPromises,         \* batchStart -> [state, lines]; a deleted key is absent
  nextYieldIdx,
  generationComplete,
  generationError,
  solved,                \* stats.solved
  notifyNewBatch,
  dispatchedBatchCount,
  pcDispatcher,          \* "run", "wait", "timer", "done", "rejected"
  pcConsumer,            \* "await", "yielded", "join", "returned", "thrown"
  lines,                 \* the consumer's local `lines` while it is suspended
  yielded,               \* every line handed downstream so far, in order
  terminated,            \* the workers terminate() was called on
  producerConfig,        \* the producer's config.batchSize (0: config unset)
  credits,
  generatedCount,
  prng,                  \* state of the producer's seedLCG closure, <<hi, lo>>
  pcProducer,            \* "idle", "run", "wait", "done", "failed"
  toProducer,            \* messages posted to the producer, not yet handled
  toMain,                \* messages posted by the producer, not yet handled
  solver,                \* per solver worker: its port and what it holds
  started,               \* batches the producer has started generating
  \* --- one call of generateSync followed by the solver worker's handling of
  \* --- the spec it returned (or of a spec given directly)
  generatorId,           \* the generator called, "direct" when the solver is
                         \* given a spec no generator made, "off" outside
  rows,
  cols,
  grid,                  \* <<x, y>> -> 0 (wall) or 1 (passage)
  pcGen,                 \* where the call is: "run", a loop of the generator,
                         \* "returned", "threw", "solved", "replied"
  loc,                   \* the generator's other local variables
  spec,                  \* what generateSync returned
  solution,              \* what solveSync returned
  reply,                 \* what the solver worker posted: "lines" or "error"
  \* --- one seedLCG closure
  rngSeed,               \* the argument of seedLCG
  rngState,              \* the closure's `state`, <<hi, lo>>
  rngDraws,              \* how many times the closure has been called
  \* --- one call of a function that keeps no state between calls
  callee,                \* the function called, "off" outside
  args,                  \* its arguments
  wire,                  \* what it returned, when a second function reads it
  result,                \* what the call, or the second function, returned
  pcCall                 \* "call", then the name of what has returned

vars == <<opts, faults, config, numWorkers, currentBatchSize, availableWorkers,
          notifyWorkerAvailable, generatedBatchQueue, batchPromises,
          nextYieldIdx, generationComplete, generationError, solved,
          notifyNewBatch, dispatchedBatchCount, pcDispatcher, pcConsumer,
          lines, yielded, terminated, producerConfig, credits, generatedCount,
          prng, pcProducer, toProducer, toMain, solver, started,
          generatorId, rows, cols, grid, pcGen, loc, spec, solution, reply,
          rngSeed, rngState, rngDraws, callee, args, wire, result, pcCall>>

pipelineVars == <<opts, faults, config, numWorkers, currentBatchSize,
                  availableWorkers, notifyWorkerAvailable,
                  generatedBatchQueue, batchPromises, nextYieldIdx,
                  generationComplete, generationError, solved, notifyNewBatch,
                  dispatchedBatchCount, pcDispatcher, pcConsumer, lines,
                  yielded, terminated, producerConfig, credits,
                  generatedCount, prng, pcProducer, toProducer, toMain,
                  solver, started>>

mazeVars == <<generatorId, rows, cols, grid, pcGen, loc, spec, solution, reply>>

rngVars == <<rngSeed, rngState, rngDraws>>

callVars == <<callee, args, wire, result, pcCall>>

mainVars == <<currentBatchSize, availableWorkers, notifyWorkerAvailable,
              generatedBatchQueue, batchPromises, nextYieldIdx,
              generationComplete, generationError, solved, notifyNewBatch,
              dispatchedBatchCount, pcDispatcher, pcConsumer, lines, yielded,
              terminated>>

producerVars == <<producerConfig, credits, generatedCount, prng, pcProducer,
                  started>>

\* What no step of the pipeline changes: its arguments, and the variables of
\* the single generateSync call, of the single seedLCG closure and of the
\* single function call, which are explored on their own.
constVars == <<opts, faults, config, numWorkers, mazeVars, rngVars, callVars>>

\* No generateSync call, no seedLCG closure and no function call is being
\* explored.
MazeOff ==
  /\ generatorId = "off"
  /\ rows = 0
  /\ cols = 0
  /\ grid = <<>>
  /\ pcGen = "off"
  /\ loc = <<>>
  /\ spec = <<>>
  /\ solution = <<>>
  /\ reply = "none"

RngOff ==
  /\ rngSeed = 0
  /\ rngState = <<0, 0>>
  /\ rngDraws = 0

CallOff ==
  /\ callee = "off"
  /\ args = <<>>
  /\ wire = <<>>
  /\ result = <<>>
  /\ pcCall = "off"

NoError == [kind |-> "none"]

\* ------------------------------------------------------------------- PRNG
\* seedLCG's state is an unsigned 32-bit number, kept as two 16-bit halves.
ToUint32(n) == <<(n \div Half) % Half, n % Half>>

\* One draw: state = (1664525 * state + 1013904223) >>> 0.
LcgNext(s) ==
  LET lo == LcgMulLo * s[2] + LcgIncLo
      hi == LcgMulLo * s[1] + LcgMulHi * s[2] + LcgIncHi + (lo \div Half)
  IN  <<hi % Half, lo % Half>>

\* prngSeed = (seed * 2 + modeBit) >>> 0
PrngSeed(seed, mode) == ToUint32(seed * 2 + (IF mode = "test" THEN 1 ELSE 0))

\* Generator parameters: none given ({}), or a coverage (the fraction
\* <<num, den>>) for drunkards_walk, as in `--coverage 0.7`.
NoParams == [coverage |-> <<>>]
GeneratorParams == {NoParams, [coverage |-> <<7, 10>>]}

\* `coverage = 0.5` in the parameter list of drunkards_walk.generateSync.
Coverage(params) == IF params.coverage = <<>> THEN <<1, 2>> ELSE params.coverage

\* generateSync on the shared PRNG, reduced to what the pipeline sees of it: it
\* advances the PRNG and returns a spec that is a function of the draws and of
\* the parameters in effect.
GenerateSync(p, params) ==
  [spec |-> [draw |-> LcgNext(p), coverage |-> Coverage(params)],
   prng |-> LcgNext(p)]

\* What the producer spreads into the argument of generateSync:
\* config.generatorParams, which the init message sets to opts.generatorParams.
ProducerParams(o) == o.generatorParams

RECURSIVE GenerateItemsInclusive(_, _, _)
\* Faulty variant of GenerateItems: `idx <= batchEnd`.
GenerateItemsInclusive(p, idx, batchEnd) ==
  IF idx > batchEnd THEN [batch |-> <<>>, prng |-> p]
  ELSE LET g == GenerateSync(p, ProducerParams(opts))
           rest == GenerateItemsInclusive(g.prng, idx + 1, batchEnd)
       IN  [batch |-> <<[idx |-> idx, spec |-> g.spec]>> \o rest.batch,
            prng |-> rest.prng]

RECURSIVE GenerateItems(_, _, _)
\* The loop `for (idx = batchStart; idx < batchEnd; idx++)` of generate().
GenerateItems(p, idx, batchEnd) ==
  IF idx >= batchEnd THEN [batch |-> <<>>, prng |-> p]
  ELSE LET g == GenerateSync(p, ProducerParams(opts))
           rest == GenerateItems(g.prng, idx + 1, batchEnd)
       IN  [batch |-> <<[idx |-> idx, spec |-> g.spec]>> \o rest.batch,
            prng |-> rest.prng]

\* The solver worker's loop over a batch: one line per item, in item order.
\* idx is carried along to say which example a line is; text is the line.
SolveBatch(batch) ==
  [i \in 1..Len(batch) |-> [idx |-> batch[i].idx, text |-> batch[i].spec]]

\* ------------------------------------------------------------ worker pool
NumWorkers(requestedWorkers, count) ==
  LET n == Min(requestedWorkers, count)
  IN  IF count < SmallCountLimit THEN Min(SmallCountWorkers, n) ELSE n

Workers == 1..numWorkers

\* The producer worker's name in `terminated`, beside the solver workers'.
ProducerWorker == 0

PromiseKeys(count, batchSize) ==
  {k \in 0..(count - 1) : k % batchSize = 0}

\* ------------------------------------------------------------------- Init
\* The arguments of a short run: any batchSize, maxBatchSize, producerBuffer
\* and workers, a known or unknown generator, and possibly an example on which
\* generateSync throws and one on which the solver fails.
ShortRun ==
  /\ config \in [batchSize : 1..MaxBatchSize,
                 maxBatchSize : 1..MaxMaxBatchSize,
                 producerBuffer : 1..MaxProducerBuffer,
                 workers : 1..MaxWorkers]
  /\ opts \in [count : 1..(MaxBatches * config.batchSize), seed : Seeds,
               mode : Modes, generatorId : {"kruskal", "nonexistent"},
               generatorParams : {NoParams}]
  /\ faults \in [generator : -1..(Min(opts.count, MaxFaultIdx) - 1),
                 solver : -1..(Min(opts.count, MaxFaultIdx) - 1)]

\* The arguments of a long run: maxBatchSize = batchSize + 1, which is no
\* multiple of batchSize unless batchSize = 1.
LongRun ==
  /\ config \in [batchSize : 1..MaxBatchSize,
                 maxBatchSize : 2..(MaxBatchSize + 1),
                 producerBuffer : 1..MaxProducerBuffer,
                 workers : 1..MaxWorkers]
  /\ config.maxBatchSize = config.batchSize + 1
  /\ opts \in [count : {LongBatches * config.batchSize}, seed : Seeds,
               mode : Modes, generatorId : {"kruskal"},
               generatorParams : {NoParams}]
  /\ faults = [generator |-> -1, solver |-> -1]

\* The arguments of a run that varies what feeds generateSync: the mode and
\* the generator parameters, with a batch size that grows from 1 to 2.
ParamRun ==
  /\ config = [batchSize |-> 1, maxBatchSize |-> 2, producerBuffer |-> 1,
               workers |-> 2]
  /\ opts \in [count : {LongBatches}, seed : Seeds, mode : {"train", "test"},
               generatorId : {"drunkards_walk"},
               generatorParams : GeneratorParams]
  /\ faults = [generator |-> -1, solver |-> -1]

\* The arguments of a run whose solver fails in the second batch: batches of
\* MaxBatchSize examples, and the failing example anywhere in the second one.
LateFailRun ==
  /\ config \in [batchSize : {MaxBatchSize}, maxBatchSize : {MaxBatchSize},
                 producerBuffer : 1..MaxProducerBuffer,
                 workers : 1..MaxWorkers]
  /\ opts \in [count : {MaxBatches * config.batchSize}, seed : Seeds,
               mode : Modes, generatorId : {"kruskal"},
               generatorParams : {NoParams}]
  /\ faults \in [generator : {-1},
                 solver : config.batchSize..(2 * config.batchSize - 1)]

Init ==
  /\ \/ ShortRun
     \/ LongRun
     \/ ParamRun
     \/ LateFailRun
  /\ numWorkers = NumWorkers(config.workers, opts.count)
  /\ currentBatchSize = config.batchSize
  /\ availableWorkers = [i \in 1..numWorkers |-> i]
  /\ notifyWorkerAvailable = "null"
  /\ generatedBatchQueue = <<>>
  /\ batchPromises = [k \in PromiseKeys(opts.count, config.batchSize) |->
                        [state |-> "pending", lines |-> <<>>]]
  /\ nextYieldIdx = 0
  /\ generationComplete = FALSE
  /\ generationError = NoError
  /\ solved = 0
  \* dispatcher() has run to its first await: the queue is empty
  /\ notifyNewBatch = "live"
  /\ dispatchedBatchCount = 0
  /\ pcDispatcher = "wait"
  /\ pcConsumer = "await"
  /\ lines = <<>>
  /\ yielded = <<>>
  /\ terminated = {}
  /\ producerConfig = 0
  /\ credits = 0
  /\ generatedCount = 0
  /\ prng = <<0, 0>>
  /\ pcProducer = "idle"
  /\ toProducer = <<[type |-> "init", batchSize |-> config.batchSize,
                     initialCredits |-> config.producerBuffer]>>
  /\ toMain = <<>>
  /\ solver = [w \in 1..numWorkers |-> [phase |-> "idle"]]
  /\ started = 0
  /\ MazeOff
  /\ RngOff
  /\ CallOff


Exited == pcConsumer \in {"returned", "thrown"}

\* --------------------------------------------------------- producer worker
\* Faulty variant of ProducerLoopHead: the backpressure check is missing and
\* generate() goes on without credit.
ProducerLoopHeadNoWait(gen, cr) ==
  IF gen >= opts.count THEN "done" ELSE "run"

\* The head of generate()'s loops: with all mazes generated it ends, with no
\* credit it waits, else it goes on to a batch.
ProducerLoopHead(gen, cr) ==
  IF gen >= opts.count THEN "done" ELSE IF cr <= 0 THEN "wait" ELSE "run"

\* parentPort.on('message'), case 'init': config and credits are set and
\* generate() starts; it runs to its first await or to its end.  An unknown
\* generatorId throws before the loop and is reported by the outer catch.
ProducerInit ==
  /\ ~Exited
  /\ pcProducer = "idle"
  /\ toProducer # <<>>
  /\ Head(toProducer).type = "init"
  /\ LET msg == Head(toProducer)
         known == opts.generatorId \in generators
     IN  /\ producerConfig' = msg.batchSize
         /\ credits' = msg.initialCredits
         /\ generatedCount' = 0
         /\ prng' = PrngSeed(opts.seed, opts.mode)
         /\ pcProducer' = IF ~known THEN "failed"
                          ELSE ProducerLoopHead(0, msg.initialCredits)
         /\ toMain' = IF known THEN toMain
                      ELSE Append(toMain, [type |-> "error", failedIndex |-> -1])
  /\ toProducer' = Tail(toProducer)
  /\ UNCHANGED <<mainVars, constVars, solver, started>>

\* case 'credit': credits += msg.count, and a waiting generate() resumes
\* before the next message is handled.
ProducerCredit ==
  /\ ~Exited
  /\ pcProducer \in {"wait", "done", "failed"}
  /\ toProducer # <<>>
  /\ Head(toProducer).type = "credit"
  /\ credits' = credits + Head(toProducer).count
  /\ pcProducer' = IF pcProducer = "wait"
                   THEN ProducerLoopHead(generatedCount, credits')
                   ELSE pcProducer
  /\ toProducer' = Tail(toProducer)
  /\ UNCHANGED <<mainVars, constVars, solver, toMain, producerConfig,
                 generatedCount, prng, started>>

\* case 'update_batch_size': config.batchSize = msg.newBatchSize.
ProducerUpdateBatchSize ==
  /\ ~Exited
  /\ pcProducer \in {"wait", "done", "failed"}
  /\ toProducer # <<>>
  /\ Head(toProducer).type = "update_batch_size"
  /\ producerConfig' = IF producerConfig # 0 THEN Head(toProducer).newBatchSize
                       ELSE producerConfig
  /\ toProducer' = Tail(toProducer)
  /\ UNCHANGED <<mainVars, constVars, solver, toMain, credits, generatedCount,
                 prng, pcProducer, started>>

\* One pass of generate()'s while loop that ends in the 'batch' message (and
\* in 'complete' when it was the last).
ProducerGenerateBatch ==
  /\ ~Exited
  /\ pcProducer = "run"
  /\ generatedCount < opts.count
  /\ LET batchStart == generatedCount
         batchEnd == Min(batchStart + producerConfig, opts.count)
         g == GenerateItems(prng, batchStart, batchEnd)
         gen == generatedCount + Len(g.batch)
         msg == [type |-> "batch", batchStart |-> batchStart, batch |-> g.batch]
     IN  /\ faults.generator \notin batchStart..(batchEnd - 1)
         /\ credits' = credits - 1
         /\ started' = started + 1
         /\ prng' = g.prng
         /\ generatedCount' = gen
         /\ pcProducer' = ProducerLoopHead(gen, credits - 1)
         /\ toMain' = IF gen >= opts.count
                      THEN toMain \o <<msg, [type |-> "complete"]>>
                      ELSE Append(toMain, msg)
  /\ UNCHANGED <<mainVars, constVars, solver, toProducer, producerConfig>>

\* One pass of the loop in which generateSync throws at index failedIndex:
\* the inner catch posts 'error' and generate() returns.
ProducerGenerateError ==
  /\ ~Exited
  /\ pcProducer = "run"
  /\ generatedCount < opts.count
  /\ LET batchStart == generatedCount
         batchEnd == Min(batchStart + producerConfig, opts.count)
         failedIndex == faults.generator
     IN  /\ failedIndex \in batchStart..(batchEnd - 1)
         /\ prng' = GenerateItems(prng, batchStart, failedIndex).prng
         /\ toMain' = Append(toMain, [type |-> "error",
                                      failedIndex |-> failedIndex])
  /\ credits' = credits - 1
  /\ started' = started + 1
  /\ pcProducer' = "failed"
  /\ UNCHANGED <<mainVars, constVars, solver, toProducer, producerConfig,
                 generatedCount>>

\* ------------------------------------------------------------ solver worker
\* The batch holds an example on which solveSync returns no plan or throws.
SolverFails(batch) == \E i \in 1..Len(batch) : batch[i].idx = faults.solver

\* parentPort.on('message') of solver-worker.js: the whole batch is solved and
\* { lines } posted, or an error is posted and nothing else.
SolverSolve(w) ==
  /\ ~Exited
  /\ solver[w].phase = "inbox"
  /\ ~SolverFails(solver[w].batch)
  /\ solver' = [solver EXCEPT ![w] =
                  [phase |-> "reply", batchStart |-> solver[w].batchStart,
                   error |-> FALSE, lines |-> SolveBatch(solver[w].batch)]]
  /\ UNCHANGED <<mainVars, constVars, producerVars, toProducer, toMain>>

SolverFail(w) ==
  /\ ~Exited
  /\ solver[w].phase = "inbox"
  /\ SolverFails(solver[w].batch)
  /\ solver' = [solver EXCEPT ![w] =
                  [phase |-> "reply", batchStart |-> solver[w].batchStart,
                   error |-> TRUE, lines |-> <<>>]]
  /\ UNCHANGED <<mainVars, constVars, producerVars, toProducer, toMain>>


\* -------------------------------------------------------------- main thread
\* Faulty variant of AwaitedKey: the consumer takes whichever batch promise is
\* resolved, not the one of the lowest outstanding batchStart.
AwaitedKeyAnyResolved(idx) ==
  LET floorKey == (idx \div config.batchSize) * config.batchSize
      resolved == {k \in DOMAIN batchPromises :
                     batchPromises[k].state = "resolved"}
  IN  IF resolved = {} THEN floorKey
      ELSE CHOOSE k \in resolved : \A j \in resolved : j <= k

\* The key the consumer awaits: Math.floor(nextYieldIdx / batchSize) * batchSize
AwaitedKey(idx) == (idx \div config.batchSize) * config.batchSize

\* A continuation of the consumer is runnable: the promise it awaits is settled.
ConsumerReady ==
  \/ /\ pcConsumer = "await"
     /\ AwaitedKey(nextYieldIdx) \in DOMAIN batchPromises
     /\ batchPromises[AwaitedKey(nextYieldIdx)].state = "resolved"
  \/ /\ pcConsumer = "join"
     /\ pcDispatcher \in {"done", "rejected"}

\* No microtask is pending on the main thread: the next macrotask may start.
MainIdle ==
  /\ ~Exited
  /\ pcDispatcher # "run"
  /\ ~ConsumerReady

\* Faulty variant of CallNotifyNewBatch: the slot is cleared but the resolver
\* in it is not called.
CallNotifyNewBatchNotCalled == <<pcDispatcher, "null", notifyWorkerAvailable>>

\* `if (notifyNewBatch) { notifyNewBatch(); notifyNewBatch = null; }`: the
\* dispatcher resumes when the resolved promise is one of the race it awaits.
\* The result is <<pcDispatcher, notifyNewBatch, notifyWorkerAvailable>>.
CallNotifyNewBatch ==
  IF notifyNewBatch = "live"
  THEN <<"run", "null",
         IF notifyWorkerAvailable = "live" THEN "stale"
         ELSE notifyWorkerAvailable>>
  ELSE <<pcDispatcher, "null", notifyWorkerAvailable>>

\* The same for notifyWorkerAvailable.
CallNotifyWorkerAvailable ==
  IF notifyWorkerAvailable = "live"
  THEN <<"run", IF notifyNewBatch = "live" THEN "stale" ELSE notifyNewBatch,
         "null">>
  ELSE <<pcDispatcher, notifyNewBatch, "null">>

\* producerWorker.on('message'), case 'batch'
OnBatch ==
  /\ MainIdle
  /\ toMain # <<>>
  /\ Head(toMain).type = "batch"
  /\ generatedBatchQueue' =
       Append(generatedBatchQueue, [batchStart |-> Head(toMain).batchStart,
                                    batch |-> Head(toMain).batch])
  /\ pcDispatcher' = CallNotifyNewBatch[1]
  /\ notifyNewBatch' = CallNotifyNewBatch[2]
  /\ notifyWorkerAvailable' = CallNotifyNewBatch[3]
  /\ toMain' = Tail(toMain)
  /\ UNCHANGED <<constVars, producerVars, solver, toProducer, currentBatchSize,
                 availableWorkers, batchPromises, nextYieldIdx,
                 generationComplete, generationError, solved,
                 dispatchedBatchCount, pcConsumer, lines, yielded, terminated>>

\* case 'complete'
OnComplete ==
  /\ MainIdle
  /\ toMain # <<>>
  /\ Head(toMain).type = "complete"
  /\ generationComplete' = TRUE
  /\ pcDispatcher' = CallNotifyNewBatch[1]
  /\ notifyNewBatch' = CallNotifyNewBatch[2]
  /\ notifyWorkerAvailable' = CallNotifyNewBatch[3]
  /\ toMain' = Tail(toMain)
  /\ UNCHANGED <<constVars, producerVars, solver, toProducer, currentBatchSize,
                 availableWorkers, generatedBatchQueue, batchPromises,
                 nextYieldIdx, generationError, solved, dispatchedBatchCount,
                 pcConsumer, lines, yielded, terminated>>

\* `msg.failedIndex || 'unknown'`: 0 and undefined (-1 here) are falsy.
FailedIndexText(failedIndex) ==
  IF failedIndex <= 0 THEN "unknown" ELSE ToString(failedIndex)

\* case 'error'
OnError ==
  /\ MainIdle
  /\ toMain # <<>>
  /\ Head(toMain).type = "error"
  /\ generationError' = [kind |-> "producer",
                         failedAt |-> FailedIndexText(Head(toMain).failedIndex)]
  /\ generationComplete' = TRUE
  /\ pcDispatcher' = CallNotifyNewBatch[1]
  /\ notifyNewBatch' = CallNotifyNewBatch[2]
  /\ notifyWorkerAvailable' = CallNotifyNewBatch[3]
  /\ toMain' = Tail(toMain)
  /\ UNCHANGED <<constVars, producerVars, solver, toProducer, currentBatchSize,
                 availableWorkers, generatedBatchQueue, batchPromises,
                 nextYieldIdx, solved, dispatchedBatchCount, pcConsumer, lines,
                 yielded, terminated>>

\* `batchPromise.resolve(msg.lines)` when batchPromises.get(batchStart) exists.
ResolveBatch(batchStart, ls) ==
  IF batchStart \in DOMAIN batchPromises
  THEN [batchPromises EXCEPT ![batchStart] =
          IF @.state = "pending" THEN [state |-> "resolved", lines |-> ls]
          ELSE @]
  ELSE batchPromises

\* messageHandler of a work promise, for a reply that carries lines.
OnSolverLines(w) ==
  /\ MainIdle
  /\ solver[w].phase = "reply"
  /\ ~solver[w].error
  /\ solved' = solved + Len(solver[w].lines)
  /\ batchPromises' = ResolveBatch(solver[w].batchStart, solver[w].lines)
  /\ availableWorkers' = Append(availableWorkers, w)
  /\ pcDispatcher' = CallNotifyWorkerAvailable[1]
  /\ notifyNewBatch' = CallNotifyWorkerAvailable[2]
  /\ notifyWorkerAvailable' = CallNotifyWorkerAvailable[3]
  /\ solver' = [solver EXCEPT ![w] = [phase |-> "idle"]]
  /\ UNCHANGED <<constVars, producerVars, toProducer, toMain, currentBatchSize,
                 generatedBatchQueue, nextYieldIdx, generationComplete,
                 generationError, dispatchedBatchCount, pcConsumer, lines,
                 yielded, terminated>>

\* messageHandler for a reply that carries an error: the work promise is
\* rejected and its catch records the error; the worker is not returned.
OnSolverError(w) ==
  /\ MainIdle
  /\ solver[w].phase = "reply"
  /\ solver[w].error
  /\ generationError' = [kind |-> "solver", batchStart |-> solver[w].batchStart]
  /\ solver' = [solver EXCEPT ![w] = [phase |-> "idle"]]
  /\ UNCHANGED <<constVars, producerVars, toProducer, toMain, currentBatchSize,
                 availableWorkers, notifyWorkerAvailable, generatedBatchQueue,
                 batchPromises, nextYieldIdx, generationComplete, solved,
                 notifyNewBatch, dispatchedBatchCount, pcDispatcher, pcConsumer,
                 lines, yielded, terminated>>


\* ---------------------------------------------------------------- dispatcher
\* The dispatcher is at the top of its while loop ("timer": the 10 ms pause
\* of the last else branch has been set, and other tasks may run before it).
DispatcherRunnable == ~Exited /\ pcDispatcher \in {"run", "timer"}

\* The loop condition: !generationComplete || generatedBatchQueue.length > 0
DispatcherLoopCondition ==
  ~generationComplete \/ Len(generatedBatchQueue) > 0

\* Faulty variant of DispatcherErrorCheck: the dispatcher never looks at
\* generationError.
DispatcherErrorCheckSkipped == FALSE

\* `if (generationError)` at the top of each pass of the loop.
DispatcherErrorCheck == generationError # NoError

\* The loop condition is false: dispatcher() returns.
DispatcherExit ==
  /\ DispatcherRunnable
  /\ ~DispatcherLoopCondition
  /\ pcDispatcher' = "done"
  /\ UNCHANGED <<constVars, producerVars, solver, toProducer, toMain,
                 currentBatchSize, availableWorkers, notifyWorkerAvailable,
                 generatedBatchQueue, batchPromises, nextYieldIdx,
                 generationComplete, generationError, solved, notifyNewBatch,
                 dispatchedBatchCount, pcConsumer, lines, yielded, terminated>>

\* `if (generationError) throw generationError;`: dispatcherPromise rejects.
DispatcherThrow ==
  /\ DispatcherRunnable
  /\ DispatcherLoopCondition
  /\ DispatcherErrorCheck
  /\ pcDispatcher' = "rejected"
  /\ UNCHANGED <<constVars, producerVars, solver, toProducer, toMain,
                 currentBatchSize, availableWorkers, notifyWorkerAvailable,
                 generatedBatchQueue, batchPromises, nextYieldIdx,
                 generationComplete, generationError, solved, notifyNewBatch,
                 dispatchedBatchCount, pcConsumer, lines, yielded, terminated>>

\* Faulty variant of ShouldGrow: no warm-up.
ShouldGrowNoWarmUp(dispatched, queue, pool) ==
  /\ Len(queue) = 0
  /\ Len(pool) > 0
  /\ currentBatchSize < config.maxBatchSize

\* The dynamic-batching test made right after a dispatch, on the queue and
\* the pool as the dispatch left them.
ShouldGrow(dispatched, queue, pool) ==
  /\ dispatched > numWorkers + 1
  /\ Len(queue) = 0
  /\ Len(pool) > 0
  /\ currentBatchSize < config.maxBatchSize

\* Faulty variant of GrownBatchSize: the doubling is not clamped.
GrownBatchSizeUnclamped == currentBatchSize * 2

GrownBatchSize == Min(currentBatchSize * 2, config.maxBatchSize)

\* Faulty variant of CreditGrant: two credits for one freed slot.
CreditGrantDouble == [type |-> "credit", count |-> 2]

\* The backpressure message of a dispatch: one credit.
CreditGrant == [type |-> "credit", count |-> 1]

\* Faulty variant of PoolAfterShift: the worker taken stays in the pool.
PoolAfterShiftKept(pool) == pool

\* availableWorkers.shift(): the pool without the worker taken.
PoolAfterShift(pool) == Tail(pool)

\* The dispatch branch: a batch is handed to an idle worker, a credit is
\* granted, and the batch size may grow.
DispatcherDispatch ==
  /\ DispatcherRunnable
  /\ DispatcherLoopCondition
  /\ ~DispatcherErrorCheck
  /\ Len(generatedBatchQueue) > 0
  /\ Len(availableWorkers) > 0
  /\ LET item == Head(generatedBatchQueue)
         worker == Head(availableWorkers)
         queue == Tail(generatedBatchQueue)
         pool == PoolAfterShift(availableWorkers)
         grow == ShouldGrow(dispatchedBatchCount + 1, queue, pool)
     IN  /\ dispatchedBatchCount' = dispatchedBatchCount + 1
         /\ generatedBatchQueue' = queue
         /\ availableWorkers' = pool
         /\ currentBatchSize' = IF grow THEN GrownBatchSize ELSE currentBatchSize
         /\ toProducer' =
              toProducer \o <<CreditGrant>> \o
              (IF grow THEN <<[type |-> "update_batch_size",
                               newBatchSize |-> GrownBatchSize]>>
               ELSE <<>>)
         /\ solver' = [solver EXCEPT ![worker] =
                         [phase |-> "inbox", batchStart |-> item.batchStart,
                          batch |-> item.batch]]
  /\ pcDispatcher' = "run"
  /\ UNCHANGED <<constVars, producerVars, toMain, notifyWorkerAvailable,
                 batchPromises, nextYieldIdx, generationComplete,
                 generationError, solved, notifyNewBatch, pcConsumer, lines,
                 yielded, terminated>>

\* The else branch: the dispatcher sets the notifiers it needs and awaits
\* their race; with nothing to wait for it breaks or pauses 10 ms.
DispatcherWait ==
  /\ DispatcherRunnable
  /\ DispatcherLoopCondition
  /\ ~DispatcherErrorCheck
  /\ ~(Len(generatedBatchQueue) > 0 /\ Len(availableWorkers) > 0)
  /\ LET waitBatch == Len(generatedBatchQueue) = 0 /\ ~generationComplete
         waitWorker == Len(availableWorkers) = 0 /\ solved < opts.count
     IN  /\ notifyNewBatch' = IF waitBatch THEN "live" ELSE notifyNewBatch
         /\ notifyWorkerAvailable' =
              IF waitWorker THEN "live" ELSE notifyWorkerAvailable
         /\ pcDispatcher' =
              IF waitBatch \/ waitWorker THEN "wait"
              ELSE IF /\ generationComplete
                      /\ Len(generatedBatchQueue) = 0
                      /\ solved >= opts.count
                   THEN "done"
                   ELSE "timer"
  /\ UNCHANGED <<constVars, producerVars, solver, toProducer, toMain,
                 currentBatchSize, availableWorkers, generatedBatchQueue,
                 batchPromises, nextYieldIdx, generationComplete,
                 generationError, solved, dispatchedBatchCount, pcConsumer,
                 lines, yielded, terminated>>

\* ------------------------------------------------------------------ consumer
\* Faulty variant of Finally: the solver workers are left running.
FinallyProducerOnly == {ProducerWorker}

\* The finally block: terminate() on the producer and on every solver worker.
Finally == {ProducerWorker} \cup Workers

\* The awaited batch promise is resolved but an error is recorded: the
\* consumer throws it, through the finally block.
ConsumerThrow ==
  /\ pcConsumer = "await"
  /\ ConsumerReady
  /\ generationError # NoError
  /\ pcConsumer' = "thrown"
  /\ terminated' = Finally
  /\ UNCHANGED <<constVars, producerVars, solver, toProducer, toMain,
                 currentBatchSize, availableWorkers, notifyWorkerAvailable,
                 generatedBatchQueue, batchPromises, nextYieldIdx,
                 generationComplete, generationError, solved, notifyNewBatch,
                 dispatchedBatchCount, pcDispatcher, lines, yielded>>

\* Faulty variant of LinesToYield: the slice ends one initial batch size after
\* batchStart, whatever the length of the batch that was solved.
LinesToYieldInitialSize(batchStart, ls) ==
  SubSeq(ls, 1, Min(Min(batchStart + config.batchSize, batchStart + Len(ls)),
                    opts.count) - batchStart)

\* lines.slice(0, endIdx - batchStart) with endIdx clipped to count
LinesToYield(batchStart, ls) ==
  SubSeq(ls, 1, Min(batchStart + Len(ls), opts.count) - batchStart)

\* The awaited batch promise is resolved and no error is recorded: the batch
\* is yielded and the generator is suspended at the yield.
ConsumerYield ==
  /\ pcConsumer = "await"
  /\ ConsumerReady
  /\ generationError = NoError
  /\ LET batchStart == AwaitedKey(nextYieldIdx)
     IN  /\ lines' = batchPromises[batchStart].lines
         /\ yielded' = yielded \o LinesToYield(batchStart, lines')
  /\ pcConsumer' = "yielded"
  /\ UNCHANGED <<constVars, producerVars, solver, toProducer, toMain,
                 currentBatchSize, availableWorkers, notifyWorkerAvailable,
                 generatedBatchQueue, batchPromises, nextYieldIdx,
                 generationComplete, generationError, solved, notifyNewBatch,
                 dispatchedBatchCount, pcDispatcher, terminated>>

\* Downstream asks for the next item: the statements after the yield run, and
\* the loop either awaits the next batch promise (a missing map entry throws
\* a TypeError) or goes on to await the dispatcher.
ConsumerResume ==
  /\ pcConsumer = "yielded"
  /\ LET batchStart == AwaitedKey(nextYieldIdx)
         endIdx == Min(batchStart + Len(lines), opts.count)
         kept == IF endIdx >= batchStart + Len(lines)
                 THEN DOMAIN batchPromises \ {batchStart}
                 ELSE DOMAIN batchPromises
     IN  /\ nextYieldIdx' = endIdx
         /\ batchPromises' = [k \in kept |-> batchPromises[k]]
         /\ pcConsumer' = IF endIdx >= opts.count THEN "join"
                          ELSE IF AwaitedKey(endIdx) \in kept THEN "await"
                          ELSE "thrown"
         /\ terminated' = IF pcConsumer' = "thrown" THEN Finally ELSE terminated
  /\ UNCHANGED <<constVars, producerVars, solver, toProducer, toMain,
                 currentBatchSize, availableWorkers, notifyWorkerAvailable,
                 generatedBatchQueue, generationComplete, generationError,
                 solved, notifyNewBatch, dispatchedBatchCount, pcDispatcher,
                 lines, yielded>>

\* `await dispatcherPromise`, then the finally block.
ConsumerJoin ==
  /\ pcConsumer = "join"
  /\ ConsumerReady
  /\ pcConsumer' = IF pcDispatcher = "done" THEN "returned" ELSE "thrown"
  /\ terminated' = Finally
  /\ UNCHANGED <<constVars, producerVars, solver, toProducer, toMain,
                 currentBatchSize, availableWorkers, notifyWorkerAvailable,
                 generatedBatchQueue, batchPromises, nextYieldIdx,
                 generationComplete, generationError, solved, notifyNewBatch,
                 dispatchedBatchCount, pcDispatcher, lines, yielded>>

\* ---------------------------------------------------------------------- Next
Next ==
  \/ ProducerInit
  \/ ProducerCredit
  \/ ProducerUpdateBatchSize
  \/ ProducerGenerateBatch
  \/ ProducerGenerateError
  \/ \E w \in Workers : SolverSolve(w)
  \/ \E w \in Workers : SolverFail(w)
  \/ OnBatch
  \/ OnComplete
  \/ OnError
  \/ \E w \in Workers : OnSolverLines(w)
  \/ \E w \in Workers : OnSolverError(w)
  \/ DispatcherExit
  \/ DispatcherThrow
  \/ DispatcherDispatch
  \/ DispatcherWait
  \/ ConsumerThrow
  \/ ConsumerYield
  \/ ConsumerResume
  \/ ConsumerJoin

Spec == Init /\ [][Next]_vars


\* ------------------------------------------------------------------- claims
\* No worker is made to fail: the generator is registered and neither
\* generateSync nor the solver fails on any example.
NoFault ==
  /\ opts.generatorId \in generators
  /\ faults.generator = -1
  /\ faults.solver = -1

\* Nothing can happen any more: every thread waits or has ended.
Quiescent == ~ENABLED Next

RECURSIVE SequentialLines(_, _, _, _)
\* The loop of the sequential generateDataset from index idx on: one
\* generateSync per index on one PRNG; a line is here the spec it was made of.
\* params is what generateSync is given besides rows, cols and prng.
SequentialLines(p, idx, count, params) ==
  IF idx >= count THEN <<>>
  ELSE LET g == GenerateSync(p, params)
       IN  <<g.spec>> \o SequentialLines(g.prng, idx + 1, count, params)

YieldedTexts == [i \in 1..Len(yielded) |-> yielded[i].text]

\* C1: the lines yielded so far are at every moment the examples 0, 1, 2, ...
\* in index order, with no gap, duplicate or reordering.
C1_YieldedInIndexOrder ==
  \A i \in 1..Len(yielded) : yielded[i].idx = i - 1

\* C1 witness: lines have been yielded while a later batch was solved before an
\* earlier one (its promise is resolved, the earlier one's still pending).
C1_Witness ==
  /\ Len(yielded) > 0
  /\ \E j, k \in DOMAIN batchPromises :
       /\ j < k
       /\ nextYieldIdx <= j
       /\ batchPromises[j].state = "pending"
       /\ batchPromises[k].state = "resolved"

\* C2: a run in which no worker fails yields, when it is over, the lines of the
\* sequential run on the same seed, mode and count, whatever batchSize, workers
\* and maxBatchSize it was given (so any two such runs yield the same lines).
C2_SameLinesForAnyBatching ==
  (NoFault /\ Quiescent) =>
    YieldedTexts = SequentialLines(PrngSeed(opts.seed, opts.mode), 0, opts.count,
                                   opts.generatorParams)

\* C3: a run in which no worker reports an error cannot come to rest before the
\* consumer has yielded all count examples and the generator has returned.
C3_TerminatesWithoutError ==
  (NoFault /\ Quiescent) =>
    (pcConsumer = "returned" /\ Len(yielded) = opts.count)

\* C4: once an error is recorded the run cannot come to rest before the
\* generator has thrown it to its consumer.
C4_ErrorReachesConsumer ==
  (generationError # NoError /\ Quiescent) => pcConsumer = "thrown"

\* A step hands a batch to solver worker w.
HandsBatchTo(w) ==
  /\ solver'[w].phase = "inbox"
  /\ solver'[w] # solver[w]

\* C5: once generationError is recorded, no step hands a batch to a solver
\* worker and no step yields a batch downstream.
C5_NoWorkAfterError ==
  [][generationError # NoError =>
       /\ \A w \in Workers : ~HandsBatchTo(w)
       /\ dispatchedBatchCount' = dispatchedBatchCount
       /\ yielded' = yielded]_vars

\* C5 witness: an error is recorded while the dispatcher is about to run with
\* a batch queued and a worker idle.
C5_Witness ==
  /\ generationError # NoError
  /\ pcDispatcher = "run"
  /\ Len(generatedBatchQueue) > 0
  /\ Len(availableWorkers) > 0

\* C6: the batches the producer has started and the dispatcher has not yet
\* handed to a worker number at most producerBuffer; credits is never negative
\* and the producer starts a batch only with credits > 0.
C6_CreditsBoundGeneration ==
  /\ [](started - dispatchedBatchCount <= config.producerBuffer)
  /\ [](credits >= 0)
  /\ [][started' # started => credits > 0]_vars

\* C6 witness: the producer waits without credit, producerBuffer batches of it
\* not yet dispatched, after at least one credit was granted.
C6_Witness ==
  /\ pcProducer = "wait"
  /\ credits = 0
  /\ dispatchedBatchCount > 0
  /\ started - dispatchedBatchCount = config.producerBuffer

\* C7 as claimed: currentBatchSize and the producer's batch size are at most
\* maxBatchSize in every reachable state.
C7_AtMostMaxBatchSize ==
  /\ currentBatchSize <= config.maxBatchSize
  /\ producerConfig <= config.maxBatchSize

\* C7 amended: both are at most max(batchSize, maxBatchSize), and neither ever
\* decreases.
C7_BatchSizeMonotoneBounded ==
  /\ [](currentBatchSize <= Max(config.batchSize, config.maxBatchSize))
  /\ [](producerConfig <= Max(config.batchSize, config.maxBatchSize))
  /\ [][/\ currentBatchSize' >= currentBatchSize
        /\ producerConfig' >= producerConfig]_vars

\* C7 witness: the batch size has grown and the producer has applied it.
C7_Witness ==
  /\ currentBatchSize > config.batchSize
  /\ producerConfig = currentBatchSize

\* Batches posted by the producer that the main thread has not yet queued.
BatchesInFlight ==
  Cardinality({i \in 1..Len(toMain) : toMain[i].type = "batch"})

\* Batches a solver worker holds or has replied to with lines not yet handled.
BatchesInSolvers ==
  Cardinality({w \in Workers : solver[w].phase \in {"inbox", "reply"}})

\* Batches solved and waiting in their promise, not yet yielded downstream.
BatchesSolvedUnyielded ==
  Cardinality({k \in DOMAIN batchPromises :
                 /\ batchPromises[k].state = "resolved"
                 /\ ~(pcConsumer = "yielded" /\ k = AwaitedKey(nextYieldIdx))})

\* C8 as claimed: the batches generated and not yet yielded downstream (queued,
\* being solved, or solved and waiting) number at most producerBuffer.
C8_AtMostBufferUnyielded ==
  BatchesInFlight + Len(generatedBatchQueue) + BatchesInSolvers
    + BatchesSolvedUnyielded <= config.producerBuffer

\* C8 amended: at most producerBuffer batches are generated and not yet handed
\* to a worker, and at most producerBuffer + numWorkers are generated and not
\* yet solved.
C8_AtMostBufferUndispatched ==
  /\ BatchesInFlight + Len(generatedBatchQueue) <= config.producerBuffer
  /\ BatchesInFlight + Len(generatedBatchQueue) + BatchesInSolvers
       <= config.producerBuffer + numWorkers

\* C8 witness: more than producerBuffer solved batches wait for a consumer
\* that has not pulled, while the queue is full.
C8_Witness ==
  /\ BatchesSolvedUnyielded > config.producerBuffer
  /\ BatchesInFlight + Len(generatedBatchQueue) = config.producerBuffer

\* C9: a worker is handed a batch only when it is idle (it has replied to the
\* previous one and the reply was handled), no worker is twice in the pool, and
\* the workers of the pool are idle.
C9_OneBatchPerWorker ==
  /\ [][\A w \in Workers : HandsBatchTo(w) => solver[w].phase = "idle"]_vars
  /\ [](\A i, j \in 1..Len(availableWorkers) :
          i # j => availableWorkers[i] # availableWorkers[j])
  /\ [](\A i \in 1..Len(availableWorkers) :
          solver[availableWorkers[i]].phase = "idle")
  /\ [](BatchesInSolvers <= numWorkers)

\* C9 witness: every worker of a pool of two is busy and a batch waits.
C9_Witness ==
  /\ numWorkers = 2
  /\ BatchesInSolvers = 2
  /\ Len(generatedBatchQueue) > 0

\* C10: once the generator has exited, by return or by throw, terminate() was
\* called on the producer worker and on every solver worker.
C10_WorkersTerminatedOnExit ==
  Exited => terminated = {ProducerWorker} \cup (1..numWorkers)

\* C10 witness: the generator has thrown a recorded error with two solver
\* workers in its pool.
C10_Witness ==
  /\ pcConsumer = "thrown"
  /\ numWorkers = 2
  /\ terminated = {ProducerWorker} \cup (1..numWorkers)


\* ==========================================================================
\* One call of generateSync, and the solver worker's handling of its result
\* ==========================================================================
\* The pipeline above sees a maze only as a value it passes on.  Here one call
\* of a generator's generateSync({rows, cols, prng}) is followed step by step,
\* then astar.solveSync on the spec it returned, then what the solver worker
\* does with the solution.  Every Math.floor(prng() * n) may give any of
\* 0..n-1 and every prng() < p may go either way: the PRNG stream is arbitrary.

\* ------------------------------------------------------------------ bounds
\* Grids of 1..MaxRows rows and 1..MaxCols columns with 2..MaxCells cells.
MaxRows == 3
MaxCols == 5
MaxCells == 10

GridShapes ==
  {sh \in (1..MaxRows) \X (1..MaxCols) : sh[1] * sh[2] >= 2 /\ sh[1] * sh[2] <= MaxCells}

\* The pipeline is not running.
PipelineOff ==
  /\ opts = <<>>
  /\ faults = <<>>
  /\ config = <<>>
  /\ numWorkers = 0
  /\ currentBatchSize = 0
  /\ availableWorkers = <<>>
  /\ notifyWorkerAvailable = "null"
  /\ generatedBatchQueue = <<>>
  /\ batchPromises = <<>>
  /\ nextYieldIdx = 0
  /\ generationComplete = FALSE
  /\ generationError = NoError
  /\ solved = 0
  /\ notifyNewBatch = "null"
  /\ dispatchedBatchCount = 0
  /\ pcDispatcher = "off"
  /\ pcConsumer = "off"
  /\ lines = <<>>
  /\ yielded = <<>>
  /\ terminated = {}
  /\ producerConfig = 0
  /\ credits = 0
  /\ generatedCount = 0
  /\ prng = <<0, 0>>
  /\ pcProducer = "off"
  /\ toProducer = <<>>
  /\ toMain = <<>>
  /\ solver = <<>>
  /\ started = 0

\* ------------------------------------------------------------------ grids
\* A cell is <<x, y>>; grid[y][x] of the code is grid[<<x, y>>] here.
Cells(r, c) == (0..(c - 1)) \X (0..(r - 1))

\* Array(rows).fill(null).map(() => Array(cols).fill(0))
AllWalls(r, c) == [p \in Cells(r, c) |-> 0]

Passages(g) == {p \in DOMAIN g : g[p] = 1}

\* The cells whose two coordinates are offset, offset + 2, ...
Rooms(r, c, offset) ==
  {p \in Cells(r, c) : /\ p[1] >= offset /\ (p[1] - offset) % 2 = 0
                       /\ p[2] >= offset /\ (p[2] - offset) % 2 = 0}

\* Every order a Fisher-Yates shuffle with arbitrary draws can leave the
\* elements of S in: all of them.
Shuffles(S) ==
  LET n == Cardinality(S)
  IN  {f \in [1..n -> S] : \A i, j \in 1..n : i # j => f[i] # f[j]}

\* The returned object { grid, startX, startY, goalX, goalY }.
MazeSpecOf(g, start, goal) ==
  [grid |-> g, startX |-> start[1], startY |-> start[2],
   goalX |-> goal[1], goalY |-> goal[2]]

\* generateSync returns sp.
Return(sp) ==
  /\ spec' = sp
  /\ pcGen' = "returned"

\* ---------------------------------------------------------------- kruskal
\* The edges between rooms two cells apart (right and down neighbours), each
\* with the wall cell between them.
KruskalEdges(r, c, offset) ==
  LET rs == Rooms(r, c, offset)
  IN  {[u |-> p, v |-> <<p[1] + 2, p[2]>>, w |-> <<p[1] + 1, p[2]>>] :
         p \in {q \in rs : <<q[1] + 2, q[2]>> \in rs}}
      \cup
      {[u |-> p, v |-> <<p[1], p[2] + 2>>, w |-> <<p[1], p[2] + 1>>] :
         p \in {q \in rs : <<q[1], q[2] + 2>> \in rs}}

RECURSIVE Find(_, _)
\* `find(i)` with its path compression: the representative of i and the
\* parent array after the call.
Find(parent, i) ==
  IF parent[i] = i
  THEN [root |-> i, parent |-> parent]
  ELSE LET r == Find(parent, parent[i])
       IN  [root |-> r.root, parent |-> [r.parent EXCEPT ![i] = r.root]]

\* `union(a, b)`: parent[find(a)] = find(b).
Union(parent, a, b) ==
  LET fa == Find(parent, a)
      fb == Find(fa.parent, b)
  IN  [fb.parent EXCEPT ![fa.root] = fb.root]

\* A pass that carves the wall of every edge, joined already or not.
KruskalOneAlways(st, e) ==
  [parent |-> Union(st.parent, e.u, e.v), grid |-> [st.grid EXCEPT ![e.w] = 1]]

\* One pass of `for (const [u, v, wx, wy] of edges)`; a room stands for its
\* index in rooms.
KruskalOne(st, e) ==
  LET fu == Find(st.parent, e.u)
      fv == Find(fu.parent, e.v)
  IN  IF fu.root # fv.root
      THEN [parent |-> Union(fv.parent, e.u, e.v),
            grid |-> [st.grid EXCEPT ![e.w] = 1]]
      ELSE [parent |-> fv.parent, grid |-> st.grid]

RECURSIVE KruskalCarve(_, _, _, _)
\* The loop over the shuffled edges.
KruskalCarve(edges, i, parent, g) ==
  IF i > Len(edges) THEN g
  ELSE LET st == KruskalOne([parent |-> parent, grid |-> g], edges[i])
       IN  KruskalCarve(edges, i + 1, st.parent, st.grid)

\* kruskal.generateSync up to the carved grid.
KruskalGenerate ==
  /\ generatorId = "kruskal"
  /\ pcGen = "run"
  /\ \E offset \in {0, 1} :
       LET rs == Rooms(rows, cols, offset)
           g0 == [p \in Cells(rows, cols) |-> IF p \in rs THEN 1 ELSE 0]
       IN  \E edges \in Shuffles(KruskalEdges(rows, cols, offset)) :
             grid' = KruskalCarve(edges, 1, [q \in rs |-> q], g0)
  /\ pcGen' = "pick"
  /\ UNCHANGED <<pipelineVars, rngVars, callVars, generatorId, rows, cols, loc, spec,
                 solution, reply>>

\* `let [goalX, goalY] = pick(); if (start equals goal) [goalX, goalY] = pick();`
\* with first and second what the two calls of pick() give.
PickGoalOnce(start, first, second) ==
  IF first = start THEN second ELSE first

\* kruskal.generateSync from `pick` on: pick() loops until it hits a passage,
\* so it gives any passage, and never returns when there is none.
KruskalPick ==
  /\ generatorId = "kruskal"
  /\ pcGen = "pick"
  /\ \E start, first, second \in Passages(grid) :
       Return(MazeSpecOf(grid, start, PickGoalOnce(start, first, second)))
  /\ UNCHANGED <<pipelineVars, rngVars, callVars, generatorId, rows, cols, grid, loc,
                 solution, reply>>


\* ------------------------------------------------------------------ A*
\* Array(cols).fill(Infinity): larger than any score of a grid explored.
Infinity == 1000000

\* Faulty variant of heuristic: three times the Manhattan distance.
HeuristicTripled(x1, y1, x2, y2) ==
  3 * ((IF x1 > x2 THEN x1 - x2 ELSE x2 - x1) + (IF y1 > y2 THEN y1 - y2 ELSE y2 - y1))

\* The Manhattan heuristic of solver-worker.js.
heuristic(x1, y1, x2, y2) ==
  (IF x1 > x2 THEN x1 - x2 ELSE x2 - x1) + (IF y1 > y2 THEN y1 - y2 ELSE y2 - y1)

DIRS == <<<<0, -1>>, <<1, 0>>, <<0, 1>>, <<-1, 0>>>>

\* Faulty variant of extractLowestFScore: the last of the highest scores.
ExtractHighestFScore(openSet, fScore) ==
  CHOOSE i \in 1..Len(openSet) :
    \A j \in 1..Len(openSet) :
      /\ fScore[openSet[j]] <= fScore[openSet[i]]
      /\ j > i => fScore[openSet[j]] < fScore[openSet[i]]

RECURSIVE LowestFromLastTie(_, _, _, _, _)
\* Faulty variant of LowestFrom: an entry of equal fScore replaces the one kept.
LowestFromLastTie(openSet, fScore, i, lowestIndex, lowestF) ==
  IF i > Len(openSet) THEN lowestIndex
  ELSE IF fScore[openSet[i]] <= lowestF
       THEN LowestFromLastTie(openSet, fScore, i + 1, i, fScore[openSet[i]])
       ELSE LowestFromLastTie(openSet, fScore, i + 1, lowestIndex, lowestF)

RECURSIVE LowestFrom(_, _, _, _, _)
\* The for loop of extractLowestFScore from index i on (the model counts from
\* 1): `if (fScore[y][x] < lowestF) { lowestF = fScore[y][x]; lowestIndex = i; }`
LowestFrom(openSet, fScore, i, lowestIndex, lowestF) ==
  IF i > Len(openSet) THEN lowestIndex
  ELSE IF fScore[openSet[i]] < lowestF
       THEN LowestFrom(openSet, fScore, i + 1, i, fScore[openSet[i]])
       ELSE LowestFrom(openSet, fScore, i + 1, lowestIndex, lowestF)

\* The index extractLowestFScore removes: lowestIndex after the loop, which
\* starts with the first entry as the lowest.
extractLowestFScore(openSet, fScore) ==
  LowestFrom(openSet, fScore, 2, 1, fScore[openSet[1]])

RemoveAt(seq, i) == SubSeq(seq, 1, i - 1) \o SubSeq(seq, i + 1, Len(seq))

InSeq(seq, e) == \E i \in 1..Len(seq) : seq[i] = e

\* Faulty variant of RelaxOne: walls are not skipped.
RelaxOneThroughWalls(st, ctx, current, d) ==
  LET n == <<current[1] + DIRS[d][1], current[2] + DIRS[d][2]>>
      tentativeG == st.gScore[current] + 1
  IN  IF \/ n[1] < 0 \/ n[1] >= ctx.cols \/ n[2] < 0 \/ n[2] >= ctx.rows
      THEN st
      ELSE IF n \in st.closedSet
      THEN st
      ELSE IF tentativeG < st.gScore[n]
      THEN LET h == heuristic(n[1], n[2], ctx.goalX, ctx.goalY)
           IN  [st EXCEPT
                  !.cameFrom[n] = current,
                  !.gScore[n] = tentativeG,
                  !.fScore[n] = tentativeG + h,
                  !.reasoning = Append(@,
                     [type |-> "create", x |-> n[1], y |-> n[2],
                      g |-> tentativeG, h |-> h]),
                  !.openSet = IF InSeq(@, n) THEN @ ELSE Append(@, n)]
      ELSE st

\* Faulty variant of RelaxOne: an equal tentative g-cost counts as improved.
RelaxOneOnEqual(st, ctx, current, d) ==
  LET n == <<current[1] + DIRS[d][1], current[2] + DIRS[d][2]>>
      tentativeG == st.gScore[current] + 1
  IN  IF \/ n[1] < 0 \/ n[1] >= ctx.cols \/ n[2] < 0 \/ n[2] >= ctx.rows
      THEN st
      ELSE IF ctx.grid[n] = 0 \/ n \in st.closedSet
      THEN st
      ELSE IF tentativeG <= st.gScore[n]
      THEN LET h == heuristic(n[1], n[2], ctx.goalX, ctx.goalY)
           IN  [st EXCEPT
                  !.cameFrom[n] = current,
                  !.gScore[n] = tentativeG,
                  !.fScore[n] = tentativeG + h,
                  !.reasoning = Append(@,
                     [type |-> "create", x |-> n[1], y |-> n[2],
                      g |-> tentativeG, h |-> h]),
                  !.openSet = IF InSeq(@, n) THEN @ ELSE Append(@, n)]
      ELSE st

\* One pass of the body of `for (const [dx, dy] of DIRS)` of solveSync, for
\* direction d and the node `current` just closed.
RelaxOne(st, ctx, current, d) ==
  LET n == <<current[1] + DIRS[d][1], current[2] + DIRS[d][2]>>
      tentativeG == st.gScore[current] + 1
  IN  IF \/ n[1] < 0 \/ n[1] >= ctx.cols \/ n[2] < 0 \/ n[2] >= ctx.rows
      THEN st
      ELSE IF ctx.grid[n] = 0 \/ n \in st.closedSet
      THEN st
      ELSE IF tentativeG < st.gScore[n]
      THEN LET h == heuristic(n[1], n[2], ctx.goalX, ctx.goalY)
           IN  [st EXCEPT
                  !.cameFrom[n] = current,
                  !.gScore[n] = tentativeG,
                  !.fScore[n] = tentativeG + h,
                  !.reasoning = Append(@,
                     [type |-> "create", x |-> n[1], y |-> n[2],
                      g |-> tentativeG, h |-> h]),
                  !.openSet = IF InSeq(@, n) THEN @ ELSE Append(@, n)]
      ELSE st

RECURSIVE Relax(_, _, _, _)
\* `for (const [dx, dy] of DIRS)` of solveSync, from direction d on, for the
\* node `current` just closed.
Relax(st, ctx, current, d) ==
  IF d > Len(DIRS) THEN st
  ELSE Relax(RelaxOne(st, ctx, current, d), ctx, current, d + 1)

\* Faulty variant of CloseLowest: the entry is read but stays in the open set.
CloseLowestKept(st, ctx) ==
  LET i == extractLowestFScore(st.openSet, st.fScore)
      current == st.openSet[i]
  IN  [st EXCEPT
         !.reasoning = Append(@,
            [type |-> "close", x |-> current[1], y |-> current[2],
             g |-> st.gScore[current],
             h |-> heuristic(current[1], current[2], ctx.goalX, ctx.goalY)])]

\* The head of a pass of `while (openSet.length > 0)`: the entry of the lowest
\* fScore leaves the open set and its close event is recorded.
CloseLowest(st, ctx) ==
  LET i == extractLowestFScore(st.openSet, st.fScore)
      current == st.openSet[i]
  IN  [st EXCEPT
         !.openSet = RemoveAt(@, i),
         !.reasoning = Append(@,
            [type |-> "close", x |-> current[1], y |-> current[2],
             g |-> st.gScore[current],
             h |-> heuristic(current[1], current[2], ctx.goalX, ctx.goalY)])]

\* The node the pass is about: the one of the close event just recorded.
Current(closed) ==
  LET ev == closed.reasoning[Len(closed.reasoning)] IN <<ev.x, ev.y>>

RECURSIVE AstarLoop(_, _)
\* `while (openSet.length > 0)` of solveSync; found says the loop ended by
\* the break on the goal.
AstarLoop(st, ctx) ==
  IF Len(st.openSet) = 0 THEN st
  ELSE LET closed == CloseLowest(st, ctx)
           current == Current(closed)
       IN  IF current = <<ctx.goalX, ctx.goalY>>
           THEN [closed EXCEPT !.found = TRUE]
           ELSE AstarLoop(Relax([closed EXCEPT !.closedSet = @ \cup {current}],
                                ctx, current, 1), ctx)

\* solveSync's arrays and open set before the loop, lines 151-159.
AstarStart(ctx) ==
  LET cs == Cells(ctx.rows, ctx.cols)
      start == <<ctx.startX, ctx.startY>>
  IN  [openSet |-> <<start>>,
       gScore |-> [p \in cs |-> IF p = start THEN 0 ELSE Infinity],
       fScore |-> [p \in cs |-> IF p = start
                                THEN heuristic(ctx.startX, ctx.startY,
                                               ctx.goalX, ctx.goalY)
                                ELSE Infinity],
       cameFrom |-> [p \in cs |-> <<>>],
       closedSet |-> {},
       reasoning |-> <<>>,
       found |-> FALSE]

\* The search of solveSync, lines 151-191: the state it ends in.
AstarSearch(ctx) == AstarLoop(AstarStart(ctx), ctx)

RECURSIVE PathBack(_, _, _)
\* The while loop of reconstructPathInternal from cell p on: the cells pushed,
\* in push order.  It stops at start, or at a cell with no cameFrom entry.
PathBack(cameFrom, start, p) ==
  IF p = start THEN <<>>
  ELSE IF cameFrom[p] = <<>> THEN <<p>>
  ELSE <<p>> \o PathBack(cameFrom, start, cameFrom[p])

Reverse(seq) == [i \in 1..Len(seq) |-> seq[Len(seq) + 1 - i]]

reconstructPathInternal(cameFrom, startX, startY, goalX, goalY) ==
  Reverse(PathBack(cameFrom, <<startX, startY>>, <<goalX, goalY>>)
          \o <<<<startX, startY>>>>)

\* astar.solveSync(ctx): { reasoning, plan }.
solveSync(ctx) ==
  LET st == AstarSearch(ctx)
  IN  [reasoning |-> st.reasoning,
       plan |-> reconstructPathInternal(st.cameFrom, ctx.startX, ctx.startY,
                                        ctx.goalX, ctx.goalY)]

\* The solveSync argument the solver worker builds from a decoded spec.
Ctx(r, c, sp) ==
  [rows |-> r, cols |-> c, grid |-> sp.grid, startX |-> sp.startX,
   startY |-> sp.startY, goalX |-> sp.goalX, goalY |-> sp.goalY]


\* -------------------------------------------------------------------- dfs
\* dfs.generateSync up to its loop: the walk starts from (0, 0).
DfsStart ==
  /\ generatorId = "dfs"
  /\ pcGen = "run"
  /\ grid' = [grid EXCEPT ![<<0, 0>>] = 1]
  /\ loc' = [stack |-> <<<<0, 0>>>>]
  /\ pcGen' = "loop"
  /\ UNCHANGED <<pipelineVars, rngVars, callVars, generatorId, rows, cols, spec,
                 solution, reply>>

\* A neighbours list whose tests stop one cell short of the right and lower
\* edges.
DfsNeighborsShort(g, r, c, p) ==
  LET x == p[1]
      y == p[2]
  IN  {q \in {<<x, y - 2>>} : y > 1 /\ g[q] = 0}
      \cup {q \in {<<x + 2, y>>} : x < c - 3 /\ g[q] = 0}
      \cup {q \in {<<x, y + 2>>} : y < r - 3 /\ g[q] = 0}
      \cup {q \in {<<x - 2, y>>} : x > 1 /\ g[q] = 0}

\* The neighbours list built for the cell on top of the stack.
DfsNeighbors(g, r, c, p) ==
  LET x == p[1]
      y == p[2]
  IN  {q \in {<<x, y - 2>>} : y > 1 /\ g[q] = 0}
      \cup {q \in {<<x + 2, y>>} : x < c - 2 /\ g[q] = 0}
      \cup {q \in {<<x, y + 2>>} : y < r - 2 /\ g[q] = 0}
      \cup {q \in {<<x - 2, y>>} : x > 1 /\ g[q] = 0}

\* One pass of `while (stack.length > 0)`; the loop ends on the empty stack.
DfsStep ==
  /\ generatorId = "dfs"
  /\ pcGen = "loop"
  /\ IF Len(loc.stack) = 0
     THEN /\ pcGen' = "pick"
          /\ UNCHANGED <<grid, loc>>
     ELSE LET p == loc.stack[Len(loc.stack)]
              neighbors == DfsNeighbors(grid, rows, cols, p)
          IN  /\ pcGen' = pcGen
              /\ IF neighbors # {}
                 THEN \E n \in neighbors :
                        /\ grid' = [grid EXCEPT
                                      ![<<(p[1] + n[1]) \div 2, (p[2] + n[2]) \div 2>>] = 1,
                                      ![n] = 1]
                        /\ loc' = [stack |-> Append(loc.stack, n)]
                 ELSE /\ loc' = [stack |-> SubSeq(loc.stack, 1, Len(loc.stack) - 1)]
                      /\ UNCHANGED grid
  /\ UNCHANGED <<pipelineVars, rngVars, callVars, generatorId, rows, cols, spec,
                 solution, reply>>

\* `do { goal = pickRandom() } while (goal equals start)`: any passage other
\* than start; the loop never ends when there is none.
PickGoalUntilDistinct(g, start) == Passages(g) \ {start}

\* dfs.generateSync from pickRandom on.
DfsPick ==
  /\ generatorId = "dfs"
  /\ pcGen = "pick"
  /\ \E start \in Passages(grid) :
       \E goal \in PickGoalUntilDistinct(grid, start) :
         Return(MazeSpecOf(grid, start, goal))
  /\ UNCHANGED <<pipelineVars, rngVars, callVars, generatorId, rows, cols, grid, loc,
                 solution, reply>>

\* ----------------------------------------------------------------- wilson
\* wilson.generateSync up to the first room of the maze.  With no room,
\* rooms[0] is undefined and destructuring it throws a TypeError.
WilsonStart ==
  /\ generatorId = "wilson"
  /\ pcGen = "run"
  /\ \E offset \in {0, 1} :
       LET rs == Rooms(rows, cols, offset)
       IN  IF rs = {}
           THEN /\ pcGen' = "threw"
                /\ UNCHANGED <<grid, loc>>
           ELSE \E first \in rs :
                  /\ grid' = [grid EXCEPT ![first] = 1]
                  /\ loc' = [rooms |-> rs, inMaze |-> {first}, path |-> <<>>,
                              indexMap |-> <<>>, dir |-> <<0, 0>>]
                  /\ pcGen' = "root"
  /\ UNCHANGED <<pipelineVars, rngVars, callVars, generatorId, rows, cols, spec,
                 solution, reply>>

\* A head of the loop that takes the first room drawn as the root, in the
\* maze or not.
WilsonRootAnyRoom ==
  /\ generatorId = "wilson"
  /\ pcGen = "root"
  /\ IF loc.inMaze = loc.rooms
     THEN /\ pcGen' = "pick"
          /\ UNCHANGED loc
     ELSE \E root \in loc.rooms :
            /\ loc' = [loc EXCEPT !.path = <<root>>,
                                   !.indexMap = [k \in {root} |-> 0]]
            /\ pcGen' = "walk"
  /\ UNCHANGED <<pipelineVars, rngVars, callVars, generatorId, rows, cols, grid, spec,
                 solution, reply>>

\* The head of `while (inMaze.size < rooms.length)`: a root outside the maze.
WilsonRoot ==
  /\ generatorId = "wilson"
  /\ pcGen = "root"
  /\ IF loc.inMaze = loc.rooms
     THEN /\ pcGen' = "pick"
          /\ UNCHANGED loc
     ELSE \E root \in loc.rooms \ loc.inMaze :
            /\ loc' = [loc EXCEPT !.path = <<root>>,
                                   !.indexMap = [k \in {root} |-> 0]]
            /\ pcGen' = "walk"
  /\ UNCHANGED <<pipelineVars, rngVars, callVars, generatorId, rows, cols, grid, spec,
                 solution, reply>>

RECURSIVE WilsonCarve(_, _, _)
\* `for (let i = 0; i < path.length; i++)`: the cells of the path and the
\* walls between consecutive ones become passages.
WilsonCarve(g, path, i) ==
  IF i > Len(path) THEN g
  ELSE LET c == path[i]
           g1 == [g EXCEPT ![c] = 1]
           g2 == IF i > 1
                 THEN [g1 EXCEPT ![<<(path[i - 1][1] + c[1]) \div 2,
                                     (path[i - 1][2] + c[2]) \div 2>>] = 1]
                 ELSE g1
       IN  WilsonCarve(g2, path, i + 1)

WilsonDirs == {<<2, 0>>, <<-2, 0>>, <<0, 2>>, <<0, -2>>}

\* `path.splice(idx + 1)`: the entries 0..idx of the path stay.
LoopErased(path, idx) == SubSeq(path, 1, idx + 1)

\* A rebuild that counts the entries from one.
RebuildIndexMapFromOne(path) ==
  [k \in {path[j] : j \in 1..Len(path)} |->
     CHOOSE i \in 1..Len(path) : path[i] = k]

\* `indexMap = {}; for (j ...) indexMap[k2] = j`: a later entry of the path
\* overwrites an earlier one with the same key.
RebuildIndexMap(path) ==
  [k \in {path[j] : j \in 1..Len(path)} |->
     CHOOSE i \in 0..(Len(path) - 1) :
       /\ path[i + 1] = k
       /\ \A j \in 0..(Len(path) - 1) : path[j + 1] = k => j <= i]

\* `indexMap[key] = path.length`.
SetIndex(indexMap, key, idx) ==
  [k \in DOMAIN indexMap \cup {key} |-> IF k = key THEN idx ELSE indexMap[k]]

\* One pass of `while (true)` of the loop-erased walk: dir is the drawn
\* [dx, dy], indexMap the object from the key of a cell to its index.
\* Reaching the maze ends the walk and carves the path, and path, indexMap
\* and the draw go out of scope.
WilsonWalk ==
  /\ generatorId = "wilson"
  /\ pcGen = "walk"
  /\ \E d \in WilsonDirs :
       LET c == loc.path[Len(loc.path)]
           n == <<c[1] + d[1], c[2] + d[2]>>
       IN  IF n[1] < 0 \/ n[1] >= cols \/ n[2] < 0 \/ n[2] >= rows
           THEN /\ loc' = [loc EXCEPT !.dir = d]
                /\ UNCHANGED <<grid, pcGen>>
           ELSE IF n \in loc.inMaze
           THEN LET path == Append(loc.path, n)
                IN  /\ grid' = WilsonCarve(grid, path, 1)
                    /\ loc' = [loc EXCEPT
                                 !.inMaze = @ \cup {path[i] : i \in 1..Len(path)},
                                 !.path = <<>>,
                                 !.indexMap = <<>>,
                                 !.dir = <<0, 0>>]
                    /\ pcGen' = "root"
           ELSE IF n \in DOMAIN loc.indexMap
           THEN LET idx == loc.indexMap[n]
                    path == LoopErased(loc.path, idx)
                IN  /\ loc' = [loc EXCEPT !.path = path,
                                          !.indexMap = RebuildIndexMap(path),
                                          !.dir = d]
                    /\ UNCHANGED <<grid, pcGen>>
           ELSE /\ loc' = [loc EXCEPT
                             !.path = Append(@, n),
                             !.indexMap = SetIndex(@, n, Len(loc.path)),
                             !.dir = d]
                /\ UNCHANGED <<grid, pcGen>>
  /\ UNCHANGED <<pipelineVars, rngVars, callVars, generatorId, rows, cols, spec,
                 solution, reply>>

\* wilson.generateSync from `floors` on: pick() gives any floor cell.
WilsonPick ==
  /\ generatorId = "wilson"
  /\ pcGen = "pick"
  /\ \E start, first, second \in Passages(grid) :
       Return(MazeSpecOf(grid, start, PickGoalOnce(start, first, second)))
  /\ UNCHANGED <<pipelineVars, rngVars, callVars, generatorId, rows, cols, grid, loc,
                 solution, reply>>

\* --------------------------------------------------------- drunkards_walk
\* target = Math.max(2, Math.min(total, Math.floor(total * coverage))), with
\* the coverage given as a fraction num / den (default 0.5).
DrunkTargetNoMax(total, num, den) == Min(total, (total * num) \div den)

DrunkTarget(total, num, den) == Max(2, Min(total, (total * num) \div den))

\* The coverages a call is made with: none (the default), a quarter more or
\* less, and the ends of the range.
DrunkCoverages == {<<0, 1>>, <<1, 2>>, <<3, 4>>, <<1, 1>>}

\* The default `coverage = 0.5`.
DefaultCoverage == <<1, 2>>

\* drunkards_walk.generateSync up to its loop.
DrunkStart ==
  /\ generatorId = "drunkards_walk"
  /\ pcGen = "run"
  /\ \E p \in Cells(rows, cols), coverage \in DrunkCoverages \cup {DefaultCoverage} :
       /\ grid' = [grid EXCEPT ![p] = 1]
       /\ loc' = [x |-> p[1], y |-> p[2], carved |-> 1, coverage |-> coverage,
                  target |-> DrunkTarget(rows * cols, coverage[1], coverage[2])]
  /\ pcGen' = "loop"
  /\ UNCHANGED <<pipelineVars, rngVars, callVars, generatorId, rows, cols, spec,
                 solution, reply>>

DrunkDirs(r, c, x, y) ==
  {d \in {<<-1, 0>>} : x > 0} \cup {d \in {<<1, 0>>} : x < c - 1}
  \cup {d \in {<<0, -1>>} : y > 0} \cup {d \in {<<0, 1>>} : y < r - 1}

\* One pass of `while (carved < target)`.
DrunkStep ==
  /\ generatorId = "drunkards_walk"
  /\ pcGen = "loop"
  /\ IF loc.carved < loc.target
     THEN \E d \in DrunkDirs(rows, cols, loc.x, loc.y) :
            LET n == <<loc.x + d[1], loc.y + d[2]>>
            IN  /\ grid' = [grid EXCEPT ![n] = 1]
                /\ loc' = [loc EXCEPT !.x = n[1], !.y = n[2],
                                      !.carved = IF grid[n] = 0 THEN @ + 1 ELSE @]
                /\ pcGen' = pcGen
     ELSE /\ pcGen' = "pick"
          /\ UNCHANGED <<grid, loc>>
  /\ UNCHANGED <<pipelineVars, rngVars, callVars, generatorId, rows, cols, spec,
                 solution, reply>>

\* `idxA = ...; if (floors.length < 2) throw; do { idxB = ... } while (idxB === idxA)`
PickDistinctIndices(g) ==
  {pq \in Passages(g) \X Passages(g) : pq[1] # pq[2]}

\* drunkards_walk.generateSync from `floors` on.
DrunkPick ==
  /\ generatorId = "drunkards_walk"
  /\ pcGen = "pick"
  /\ IF Cardinality(Passages(grid)) < 2
     THEN /\ pcGen' = "threw"
          /\ UNCHANGED spec
     ELSE \E pq \in PickDistinctIndices(grid) :
            Return(MazeSpecOf(grid, pq[1], pq[2]))
  /\ UNCHANGED <<pipelineVars, rngVars, callVars, generatorId, rows, cols, grid, loc,
                 solution, reply>>


\* ------------------------------------------------------ cellular_automata
\* The defaults survivalThreshold = 4, birthThreshold = 5, iterations = 3.
SurvivalThreshold == 4
BirthThreshold == 5
Iterations == 3

\* countAlive(y, x): the neighbours out of the grid or walls, of the eight.
countAlive(g, r, c, p) ==
  Cardinality({d \in ((-1)..1) \X ((-1)..1) :
    /\ d # <<0, 0>>
    /\ LET n == <<p[1] + d[1], p[2] + d[2]>>
       IN  \/ n[1] < 0 \/ n[1] >= c \/ n[2] < 0 \/ n[2] >= r
           \/ g[n] = 0})

\* One CA iteration: newGrid from grid.
CaIteration(g, r, c) ==
  [p \in Cells(r, c) |->
     LET alive == countAlive(g, r, c, p)
     IN  IF g[p] = 0
         THEN (IF alive < SurvivalThreshold THEN 1 ELSE 0)
         ELSE (IF alive > BirthThreshold THEN 0 ELSE 1)]

RECURSIVE CaIterations(_, _, _, _)
CaIterations(g, r, c, it) ==
  IF it >= Iterations THEN g ELSE CaIterations(CaIteration(g, r, c), r, c, it + 1)

\* cellular_automata.generateSync up to the final grid: a random fill (any
\* grid, as each cell is a wall or a floor by one draw), then the iterations.
CaGenerate ==
  /\ generatorId = "cellular_automata"
  /\ pcGen = "run"
  /\ \E fill \in [Cells(rows, cols) -> {0, 1}] :
       grid' = CaIterations(fill, rows, cols, 0)
  /\ pcGen' = "pick"
  /\ UNCHANGED <<pipelineVars, rngVars, callVars, generatorId, rows, cols, loc, spec,
                 solution, reply>>

\* cellular_automata.generateSync from `floors` on:
\* `a = pickIdx(); do { b = pickIdx() } while (b === a)` gives two distinct
\* floor cells and never ends with fewer than two floors.
CaPick ==
  /\ generatorId = "cellular_automata"
  /\ pcGen = "pick"
  /\ \E pq \in PickDistinctIndices(grid) :
       Return(MazeSpecOf(grid, pq[1], pq[2]))
  /\ UNCHANGED <<pipelineVars, rngVars, callVars, generatorId, rows, cols, grid, loc,
                 solution, reply>>

\* ------------------------------------------------------------ searchformer
\* `for (let attempt = 0; attempt < 100; attempt++)`
MaxAttempts == 100

RECURSIVE ChainBack(_, _)
\* `while (cameFrom[y][x])` of runAstarSync: the cells from p back to the one
\* with no cameFrom entry.
ChainBack(cameFrom, p) ==
  IF cameFrom[p] = <<>> THEN <<p>> ELSE <<p>> \o ChainBack(cameFrom, cameFrom[p])

\* runAstarSync: the same search as astar.solveSync (same scores, same order of
\* directions, same choice among equal scores); the path when the goal is
\* popped, null (the empty sequence here) when the open set runs empty.
runAstarSync(ctx) ==
  LET st == AstarSearch(ctx)
  IN  IF st.found
      THEN Reverse(ChainBack(st.cameFrom, <<ctx.goalX, ctx.goalY>>))
      ELSE <<>>

\* searchformer.generateSync, head of `while (true)`: shuffle the indices,
\* take the first numWalls as walls.
SfSample ==
  /\ generatorId = "searchformer"
  /\ pcGen = "run"
  /\ LET total == rows * cols
         base == total \div 10
         minWalls == base * 3
         maxWalls == base * 5
     IN  \E numWalls \in minWalls..maxWalls :
           \E walls \in {W \in SUBSET Cells(rows, cols) : Cardinality(W) = numWalls} :
             grid' = [p \in Cells(rows, cols) |-> IF p \in walls THEN 0 ELSE 1]
  /\ pcGen' = "place"
  /\ UNCHANGED <<pipelineVars, rngVars, callVars, generatorId, rows, cols, loc, spec,
                 solution, reply>>

\* `if (path && path.length >= Math.max(rows, cols)) break;`
SfLongEnough(path, r, c) == path # <<>> /\ Len(path) >= Max(r, c)

\* The attempts at which the loop can end with free[0], free[1] a pair whose
\* path is `path`: any attempt by the break, the last attempt otherwise.  A
\* later attempt follows a failed one, and each shuffle(free) can put any two
\* passages first, also the two it put first before.
SfEndsAt(path, r, c) ==
  IF SfLongEnough(path, r, c) THEN 0..(MaxAttempts - 1) ELSE {MaxAttempts - 1}

\* What follows the attempts loop: `if (path) break;`, else the walls are
\* sampled again.
SfAfterAttempts(path) == IF path # <<>> THEN "returned" ELSE "run"

\* searchformer.generateSync, the placement of start and goal (lines 221-237).
SfPlace ==
  /\ generatorId = "searchformer"
  /\ pcGen = "place"
  /\ \E pq \in PickDistinctIndices(grid) :
       LET path == runAstarSync(Ctx(rows, cols, MazeSpecOf(grid, pq[1], pq[2])))
       IN  \E attempt \in SfEndsAt(path, rows, cols) :
             /\ pcGen' = SfAfterAttempts(path)
             /\ spec' = IF pcGen' = "returned"
                        THEN MazeSpecOf(grid, pq[1], pq[2])
                        ELSE spec
             \* at the head of the outer loop the old grid is dead: it is
             \* replaced before it is read again
             /\ grid' = IF pcGen' = "returned" THEN grid ELSE AllWalls(rows, cols)
  /\ UNCHANGED <<pipelineVars, rngVars, callVars, generatorId, rows, cols, loc,
                 solution, reply>>

\* ------------------------------------------------------------ solver worker
\* `!solution.plan` and `!solution.reasoning`: an array is truthy, also an
\* empty one, so neither test ever holds for what solveSync returns.
Falsy(array) == FALSE

\* What the solver worker posts for a batch of this one spec.
SolverWorkerReply(sol) ==
  IF Falsy(sol.plan) \/ Falsy(sol.reasoning) THEN "error" ELSE "lines"

\* The solver worker's message handler on a batch holding the spec.
SolverWorkerOnMessage ==
  /\ pcGen = "returned"
  /\ solution' = solveSync(Ctx(rows, cols, spec))
  /\ reply' = SolverWorkerReply(solution')
  /\ pcGen' = "replied"
  /\ UNCHANGED <<pipelineVars, rngVars, callVars, generatorId, rows, cols, grid, loc,
                 spec>>

\* ---------------------------------------------------------------- MazeSpec
\* A generator is called on an all-wall grid of some shape.
GeneratorCall ==
  /\ generatorId \in generators
  /\ \E sh \in GridShapes : rows = sh[1] /\ cols = sh[2]
  /\ grid = AllWalls(rows, cols)
  /\ pcGen = "run"
  /\ spec = <<>>

\* The solver worker is handed a spec directly: any grid, any two passages.
DirectCall ==
  /\ generatorId = "direct"
  /\ \E sh \in GridShapes : rows = sh[1] /\ cols = sh[2]
  /\ grid \in [Cells(rows, cols) -> {0, 1}]
  /\ \E start, goal \in Passages(grid) : spec = MazeSpecOf(grid, start, goal)
  /\ pcGen = "returned"

MazeInit ==
  /\ PipelineOff
  /\ RngOff
  /\ CallOff
  /\ \/ GeneratorCall
     \/ DirectCall
  /\ loc = <<>>
  /\ solution = <<>>
  /\ reply = "none"

MazeNext ==
  \/ KruskalGenerate
  \/ KruskalPick
  \/ DfsStart
  \/ DfsStep
  \/ DfsPick
  \/ WilsonStart
  \/ WilsonRoot
  \/ WilsonWalk
  \/ WilsonPick
  \/ DrunkStart
  \/ DrunkStep
  \/ DrunkPick
  \/ CaGenerate
  \/ CaPick
  \/ SfSample
  \/ SfPlace
  \/ SolverWorkerOnMessage

MazeSpec == MazeInit /\ [][MazeNext]_vars


\* ==========================================================================
\* Properties of one generateSync call and of the solver (MazeSpec)
\* ==========================================================================
\* generateSync has returned a spec (the solver worker may have handled it).
Generated == generatorId \in generators /\ pcGen \in {"returned", "replied"}

Start == <<spec.startX, spec.startY>>
Goal == <<spec.goalX, spec.goalY>>

\* C11: the spec a generator returns has start and goal inside the grid, both
\* on passages, and different from each other.
C11_StartGoalValid ==
  Generated =>
    /\ Start \in Cells(rows, cols)
    /\ Goal \in Cells(rows, cols)
    /\ spec.grid[Start] = 1
    /\ spec.grid[Goal] = 1
    /\ Start # Goal


\* The solver worker has posted the line of the generated example.
Emitted == Generated /\ pcGen = "replied" /\ reply = "lines"

Adjacent(p, q) ==
  \/ p[1] = q[1] /\ (p[2] = q[2] + 1 \/ q[2] = p[2] + 1)
  \/ p[2] = q[2] /\ (p[1] = q[1] + 1 \/ q[1] = p[1] + 1)

\* plan goes from start to goal over passages, one 4-adjacent step at a time.
IsPath(plan, g, start, goal) ==
  /\ Len(plan) >= 1
  /\ plan[1] = start
  /\ plan[Len(plan)] = goal
  /\ \A i \in 1..(Len(plan) - 1) : Adjacent(plan[i], plan[i + 1])
  /\ \A i \in 1..Len(plan) : plan[i] \in DOMAIN g /\ g[plan[i]] = 1

\* C12: the plan of every emitted example starts at the start, ends at the
\* goal, moves by one cell in one axis at each step and stays on passages.
C12_PlanIsPath ==
  Emitted => IsPath(solution.plan, spec.grid, Start, Goal)


\* The passages 4-adjacent to a cell of S.
Around(g, S) == {q \in Passages(g) : \E p \in S : Adjacent(p, q)}

RECURSIVE BfsDistance(_, _, _, _, _)
\* The breadth-first distance from the cells of `frontier` (at distance d from
\* the start) to goal over passages; -1 when goal cannot be reached.
BfsDistance(g, frontier, seen, goal, d) ==
  IF goal \in frontier THEN d
  ELSE IF frontier = {} THEN -1
  ELSE BfsDistance(g, Around(g, frontier) \ seen,
                   seen \cup Around(g, frontier), goal, d + 1)

Distance(g, start, goal) == BfsDistance(g, {start}, {start}, goal, 0)

Connected(g, start, goal) == Distance(g, start, goal) >= 0

\* The solver worker has solved the spec it was given (generated or direct).
Solved == pcGen = "replied"

\* C13: for passages start and goal connected by passages the plan of
\* astar.solveSync has as many moves as the breadth-first distance.
C13_PlanIsShortest ==
  (Solved /\ Connected(spec.grid, Start, Goal)) =>
    Len(solution.plan) - 1 = Distance(spec.grid, Start, Goal)

\* A solved spec where walls force a detour: the shortest path is at least
\* two moves longer than the Manhattan distance.
C13_Witness ==
  /\ Solved
  /\ Connected(spec.grid, Start, Goal)
  /\ Distance(spec.grid, Start, Goal) >= heuristic(Start[1], Start[2], Goal[1], Goal[2]) + 2
  /\ Len(solution.plan) - 1 = Distance(spec.grid, Start, Goal)


\* The close events of the reasoning trace, in order.
CloseEvents == SelectSeq(solution.reasoning, LAMBDA ev : ev.type = "close")

\* C14: for a connected start and goal the first close event is on the start,
\* the last event of the trace is a close event on the goal, and g + h never
\* decreases from one close event to the next.
C14_CloseEventsOrdered ==
  (Solved /\ Connected(spec.grid, Start, Goal)) =>
    LET trace == solution.reasoning
        last == trace[Len(trace)]
    IN  /\ Len(CloseEvents) >= 1
        /\ <<CloseEvents[1].x, CloseEvents[1].y>> = Start
        /\ last.type = "close"
        /\ <<last.x, last.y>> = Goal
        /\ \A i \in 1..(Len(CloseEvents) - 1) :
             CloseEvents[i].g + CloseEvents[i].h
               <= CloseEvents[i + 1].g + CloseEvents[i + 1].h

\* A trace of a connected pair with at least four close events whose g + h
\* grows between the first and the last.
C14_Witness ==
  /\ Solved
  /\ Connected(spec.grid, Start, Goal)
  /\ Len(CloseEvents) >= 4
  /\ CloseEvents[1].g + CloseEvents[1].h
       < CloseEvents[Len(CloseEvents)].g + CloseEvents[Len(CloseEvents)].h
  /\ <<CloseEvents[Len(CloseEvents)].x, CloseEvents[Len(CloseEvents)].y>> = Goal


\* C15: the goal of every generated spec can be reached from its start over
\* 4-adjacent passages.
C15_GeneratedSolvable ==
  Generated => Connected(spec.grid, Start, Goal)


\* C16: when the goal cannot be reached from the start, solveSync returns no
\* plan and the solver worker posts an error instead of a line.
C16_UnreachableIsError ==
  (Solved /\ ~Connected(spec.grid, Start, Goal)) =>
    /\ solution.plan = <<>>
    /\ reply = "error"


\* C17: the A* path between the start and the goal of every spec searchformer
\* returns has at least max(rows, cols) cells.
C17_SearchformerPathLong ==
  (Generated /\ generatorId = "searchformer") =>
    Len(runAstarSync(Ctx(rows, cols, spec))) >= Max(rows, cols)


\* ------------------------------------------------- producer and sequential
\* The specs the sequential generateDataset generates for the options o, in
\* index order: generateSync is called with rows, cols and prng only.
generateDataset(o) ==
  SequentialLines(PrngSeed(o.seed, o.mode), 0, o.count, NoParams)

\* The 'batch' messages the producer has posted and main has not yet handled.
PostedBatches == {k \in 1..Len(toMain) : toMain[k].type = "batch"}

\* C18: whatever the timing of the credit and update_batch_size messages, the
\* i-th maze the producer worker generates is the i-th maze of the sequential
\* generateDataset loop run with the same options: every maze of every posted
\* batch equals the maze the sequential loop generates at that index.
C18_ProducerMatchesSequential ==
  \A k \in PostedBatches :
    \A j \in 1..Len(toMain[k].batch) :
      toMain[k].batch[j].spec = generateDataset(opts)[toMain[k].batch[j].idx + 1]


\* ================================================================= seedLCG
\* The closure seedLCG(seed) returns, as a machine of its own: rngSeed is the
\* argument, rngState the captured `state`, rngDraws the number of calls so
\* far.  The returned draw is rngState / 2^32.
MaxSeed == 3
MaxDraws == 16

\* The seeds explored: small ones of both signs, the default 42 and the seeds
\* 84 and 85 the pipeline derives from it, and the ends of the 32-bit range
\* (seed >>> 0 turns -1 into 2^32 - 1).
RngSeeds == (-MaxSeed..MaxSeed) \cup {42, 84, 85, 2147483647, -2147483647}

RECURSIVE Bits(_)
\* The number of binary digits of n.
Bits(n) == IF n = 0 THEN 0 ELSE 1 + Bits(n \div 2)

RECURSIVE Pow2(_)
Pow2(k) == IF k <= 0 THEN 1 ELSE 2 * Pow2(k - 1)

\* A JS number that holds a non-negative integer below 2^64 is written as four
\* 16-bit limbs <<l3, l2, l1, l0>>.  Rounding to a float whose integers are
\* exact below top * 2^48: a value below that is kept, a larger one is rounded
\* to the nearest multiple of its unit in the last place, ties to even.
RoundToMantissa(l, top) ==
  IF l[1] < top THEN l
  ELSE LET ulp == Pow2(Bits(l[1]) - Bits(top) + 1)
           r == l[4] % ulp
           odd == (l[4] \div ulp) % 2 = 1
           up == 2 * r > ulp \/ (2 * r = ulp /\ odd)
           v0 == (l[4] - r) + (IF up THEN ulp ELSE 0)
           v1 == l[3] + (v0 \div Half)
           v2 == l[2] + (v1 \div Half)
       IN  <<l[1] + (v2 \div Half), v2 % Half, v1 % Half, v0 % Half>>

\* Faulty variant of RoundToDouble: a float with a 52-bit significand.
RoundToNarrow(l) == RoundToMantissa(l, 16)

\* The result of a JS arithmetic operation is rounded to a double: integers
\* are exact below 2^53 = 32 * 2^48.
RoundToDouble(l) == RoundToMantissa(l, 32)

\* 1664525 * state, as JS computes it.
Multiply(s) ==
  LET t0 == LcgMulLo * s[2]
      t1 == LcgMulLo * s[1] + LcgMulHi * s[2] + (t0 \div Half)
      t2 == LcgMulHi * s[1] + (t1 \div Half)
  IN  RoundToDouble(<<t2 \div Half, t2 % Half, t1 % Half, t0 % Half>>)

\* product + 1013904223, as JS computes it.
AddIncrement(l) ==
  LET u0 == l[4] + LcgIncLo
      u1 == l[3] + LcgIncHi + (u0 \div Half)
      u2 == l[2] + (u1 \div Half)
  IN  RoundToDouble(<<l[1] + (u2 \div Half), u2 % Half, u1 % Half, u0 % Half>>)

\* Faulty variant of NextState: the increment is left out.
NextStateNoIncrement(s) == <<Multiply(s)[3], Multiply(s)[4]>>

\* state = (1664525 * state + 1013904223) >>> 0: the low 32 bits of the sum.
NextState(s) == <<AddIncrement(Multiply(s))[3], AddIncrement(Multiply(s))[4]>>

\* seedLCG(seed): let state = seed >>> 0.
RngInit ==
  /\ PipelineOff
  /\ MazeOff
  /\ CallOff
  /\ rngSeed \in RngSeeds
  /\ rngState = ToUint32(rngSeed)
  /\ rngDraws = 0

\* One call of the closure.
Draw ==
  /\ rngDraws < MaxDraws
  /\ rngState' = NextState(rngState)
  /\ rngDraws' = rngDraws + 1
  /\ UNCHANGED <<pipelineVars, mazeVars, callVars, rngSeed>>

RngNext == Draw

RngSpec == RngInit /\ [][RngNext]_vars

\* C19: the state after the first draw of seedLCG(42) is 3572282541
\* (= 54508 * 65536 + 46253), so that the first draw is 3572282541 / 2^32.
C19_FirstDrawOf42 ==
  (rngSeed = 42 /\ rngDraws = 1) => rngState = <<54508, 46253>>

\* C19, amended: the state after the first draw of seedLCG(42) is
\* 1664525 * 42 + 1013904223 = 1083814273 (= 16537 * 65536 + 45441), which is
\* below 2^32, so that the first draw is 1083814273 / 2^32.
C19_FirstDrawOf42Is1083814273 ==
  (rngSeed = 42 /\ rngDraws = 1) => rngState = <<16537, 45441>>

C19_Witness == rngSeed = 42 /\ rngDraws = 1 /\ rngState = <<16537, 45441>>

RECURSIVE NthState(_, _)
\* The exact value of the state after n draws: n steps of
\* (1664525 * state + 1013904223) mod 2^32 from seed mod 2^32.
NthState(seed, n) ==
  IF n = 0 THEN ToUint32(seed) ELSE LcgNext(NthState(seed, n - 1))

\* The exact product 1664525 * state stays below 2^53: its limb above 2^48 is
\* below 32, and so is that of the sum with the increment.
BelowTwoTo53(s) ==
  LET t0 == LcgMulLo * s[2]
      t1 == LcgMulLo * s[1] + LcgMulHi * s[2] + (t0 \div Half)
      t2 == LcgMulHi * s[1] + (t1 \div Half)
      u0 == (t0 % Half) + LcgIncLo
      u1 == (t1 % Half) + LcgIncHi + (u0 \div Half)
      u2 == t2 + (u1 \div Half)
  IN  t2 \div Half < 32 /\ u2 \div Half < 32

\* C20: for every seed the state of seedLCG is an unsigned 32-bit number, the
\* product 1664525 * state the next draw computes is below 2^53, and the state
\* after n draws is exactly n steps of (1664525 * state + 1013904223) mod 2^32
\* from seed mod 2^32: each draw loses no precision, lies in [0, 1) and
\* depends on the seed and n only.
C20_StateExactAndInRange ==
  /\ rngState[1] \in 0..(Half - 1)
  /\ rngState[2] \in 0..(Half - 1)
  /\ BelowTwoTo53(rngState)
  /\ rngState = NthState(rngSeed, rngDraws)

\* The largest state, 2^32 - 1, has been drawn from, and so has a state whose
\* product exceeds 2^52.
C20_Witness ==
  /\ rngSeed = -1
  /\ rngDraws = MaxDraws
  /\ NthState(-1, 0) = <<Half - 1, Half - 1>>
  /\ Multiply(NthState(-1, 0))[1] >= 16


\* ============================================================== maze codec
\* encodeMazeSpec in the producer worker and decodeMazeSpec in the solver
\* worker, as one call each on a spec given directly.
MaxCodecCells == 4

\* Grids as the codec reads them: an array of rows, each an array of cells
\* (grid[y][x]); rows >= 1 since encodeMazeSpec reads grid[0].length.
CodecShapes ==
  {sh \in (1..MaxCodecCells) \X (0..MaxCodecCells) : sh[1] * sh[2] <= MaxCodecCells}

CodecGrids == UNION {[1..sh[1] -> [1..sh[2] -> {0, 1}]] : sh \in CodecShapes}

\* A coordinate is a JS number holding a non-negative integer, written as the
\* limbs <<l2, l1, l0>> in base 65536: 0, 1, 65536, 2^32 - 1 and 2^32.
CodecNumbers ==
  {<<0, 0, 0>>, <<0, 0, 1>>, <<0, 1, 0>>, <<0, Half - 1, Half - 1>>, <<1, 0, 0>>}

CodecSpecs ==
  [grid : CodecGrids, startX : CodecNumbers, startY : CodecNumbers,
   goalX : CodecNumbers, goalY : CodecNumbers]

\* A small integer (a length) as a JS number.
Number(k) == <<0, k \div Half, k % Half>>

\* metadataView[k] = n: a Uint32Array element keeps n modulo 2^32, stored as
\* four bytes, lowest first.
Uint32Bytes(n) ==
  <<n[3] % 256, n[3] \div 256, n[2] % 256, n[2] \div 256>>

\* metadataView[k] read back from the bytes at offset 4k.
Uint32At(buffer, k) ==
  <<0, buffer[4 * k + 3] + 256 * buffer[4 * k + 4],
       buffer[4 * k + 1] + 256 * buffer[4 * k + 2]>>

\* Faulty variant of GridBytes: the cells are written column by column.
GridBytesColumnMajor(g, r, c) ==
  [i \in 1..(r * c) |-> g[((i - 1) % r) + 1][((i - 1) \div r) + 1] % 256]

\* The loops `gridView[i++] = grid[y][x]`: a Uint8Array element keeps the
\* value modulo 256.
GridBytes(g, r, c) ==
  [i \in 1..(r * c) |-> g[((i - 1) \div c) + 1][((i - 1) % c) + 1] % 256]

encodeMazeSpec(sp) ==
  LET r == Len(sp.grid)
      c == Len(sp.grid[1])
  IN  Uint32Bytes(Number(r)) \o Uint32Bytes(Number(c))
        \o Uint32Bytes(sp.startX) \o Uint32Bytes(sp.startY)
        \o Uint32Bytes(sp.goalX) \o Uint32Bytes(sp.goalY)
        \o GridBytes(sp.grid, r, c)

decodeMazeSpec(buffer) ==
  LET r == Uint32At(buffer, 0)[2] * Half + Uint32At(buffer, 0)[3]
      c == Uint32At(buffer, 1)[2] * Half + Uint32At(buffer, 1)[3]
  IN  [grid |-> [y \in 1..r |-> [x \in 1..c |-> buffer[24 + (y - 1) * c + x]]],
       startX |-> Uint32At(buffer, 2), startY |-> Uint32At(buffer, 3),
       goalX |-> Uint32At(buffer, 4), goalY |-> Uint32At(buffer, 5)]

\* Neither the pipeline, nor a generateSync call, nor a seedLCG closure.
OthersOff == PipelineOff /\ MazeOff /\ RngOff

CodecInit ==
  /\ OthersOff
  /\ callee = "encodeMazeSpec"
  /\ args \in CodecSpecs
  /\ wire = <<>>
  /\ result = <<>>
  /\ pcCall = "call"

\* producer-worker.js: const encodedSpec = encodeMazeSpec(spec).
CodecEncode ==
  /\ callee = "encodeMazeSpec"
  /\ pcCall = "call"
  /\ wire' = encodeMazeSpec(args)
  /\ pcCall' = "encoded"
  /\ UNCHANGED <<pipelineVars, mazeVars, rngVars, callee, args, result>>

\* solver-worker.js: const spec = decodeMazeSpec(item.spec).
CodecDecode ==
  /\ callee = "encodeMazeSpec"
  /\ pcCall = "encoded"
  /\ result' = decodeMazeSpec(wire)
  /\ pcCall' = "decoded"
  /\ UNCHANGED <<pipelineVars, mazeVars, rngVars, callee, args, wire>>

CodecNext == CodecEncode \/ CodecDecode

CodecSpec == CodecInit /\ [][CodecNext]_vars

\* The coordinates of the spec are below 2^32.
CoordinatesBelowTwoTo32(sp) ==
  sp.startX[1] = 0 /\ sp.startY[1] = 0 /\ sp.goalX[1] = 0 /\ sp.goalY[1] = 0

\* The six header fields of a spec, in the order of the layout.
HeaderFields(sp) ==
  <<Number(Len(sp.grid)), Number(Len(sp.grid[1])), sp.startX, sp.startY,
    sp.goalX, sp.goalY>>

\* C21: for a grid of 0/1 and coordinates below 2^32, the encoded buffer has
\* 24 + rows*cols bytes, its six 32-bit header fields are rows, cols, startX,
\* startY, goalX, goalY in this order, the cells follow in row-major order,
\* and decodeMazeSpec returns the grid, start and goal that were encoded.
C21_CodecRoundTrip ==
  (pcCall \in {"encoded", "decoded"} /\ CoordinatesBelowTwoTo32(args)) =>
    LET r == Len(args.grid)
        c == Len(args.grid[1])
    IN  /\ Len(wire) = 24 + r * c
        /\ \A k \in 0..5 : Uint32At(wire, k) = HeaderFields(args)[k + 1]
        /\ \A y \in 0..(r - 1) : \A x \in 0..(c - 1) :
             wire[24 + y * c + x + 1] = args.grid[y + 1][x + 1]
        /\ pcCall = "decoded" => result = args

\* A 2x2 grid whose four cells tell the orders apart, with the largest
\* coordinate, has been encoded and decoded.
C21_Witness ==
  /\ pcCall = "decoded"
  /\ args.grid = <<<<0, 1>>, <<0, 0>>>>
  /\ args.startX = <<0, Half - 1, Half - 1>>
  /\ args.goalY = <<0, 1, 0>>
  /\ result = args


\* ======================================================== serializeExample
\* One call of serializeExample({spec, solution, generatorId, solverId}), as
\* the solver worker makes it.  A string is the sequence of its characters.
MaxEvents == 2

Digits == <<"0", "1", "2", "3", "4", "5", "6", "7", "8", "9">>

RECURSIVE Decimal(_)
\* String(n) of a non-negative integer, as Array.prototype.join converts it.
Decimal(n) ==
  IF n < 10 THEN <<Digits[n + 1]>>
  ELSE Decimal(n \div 10) \o <<Digits[(n % 10) + 1]>>

\* The string literals of serializeExample, and "close" and "create" of
\* astar.solveSync.
Keyword ==
  [query |-> <<"q", "u", "e", "r", "y">>,
   start |-> <<"s", "t", "a", "r", "t">>,
   goal |-> <<"g", "o", "a", "l">>,
   wall |-> <<"w", "a", "l", "l">>,
   reasoning |-> <<"r", "e", "a", "s", "o", "n", "i", "n", "g">>,
   close |-> <<"c", "l", "o", "s", "e">>,
   create |-> <<"c", "r", "e", "a", "t", "e">>,
   solution |-> <<"s", "o", "l", "u", "t", "i", "o", "n">>,
   plan |-> <<"p", "l", "a", "n">>,
   end |-> <<"e", "n", "d">>]

\* 'c' + gScore, 'c' + heuristic(...): the cost tokens astar.solveSync puts
\* in its events.
CostToken(n) == <<"c">> \o Decimal(n)

RECURSIVE Flatten(_)
\* The concatenation of a sequence of sequences (halving keeps the recursion
\* shallow).
Flatten(ss) ==
  IF Len(ss) = 0 THEN <<>>
  ELSE IF Len(ss) = 1 THEN ss[1]
  ELSE Flatten(SubSeq(ss, 1, Len(ss) \div 2))
         \o Flatten(SubSeq(ss, (Len(ss) \div 2) + 1, Len(ss)))

\* Faulty variant of WallTokens: 'wall', y, x.
WallTokensTransposed(g) ==
  LET r == Len(g)
      c == Len(g[1])
  IN  Flatten([i \in 1..(r * c) |->
        LET y == (i - 1) \div c
            x == (i - 1) % c
        IN  IF g[y + 1][x + 1] = 0
            THEN <<Keyword.wall, Decimal(y), Decimal(x)>> ELSE <<>>])

\* The row-major loops: if (grid[y][x] === 0) tokens.push('wall', x, y).
WallTokens(g) ==
  LET r == Len(g)
      c == Len(g[1])
  IN  Flatten([i \in 1..(r * c) |->
        LET y == (i - 1) \div c
            x == (i - 1) % c
        IN  IF g[y + 1][x + 1] = 0
            THEN <<Keyword.wall, Decimal(x), Decimal(y)>> ELSE <<>>])

\* for (const ev of reasoning) tokens.push(...ev), an event being
\* [type, x, y, 'c' + g, 'c' + h].
ReasoningTokens(reasoning) ==
  Flatten([i \in 1..Len(reasoning) |->
    <<Keyword[reasoning[i].type], Decimal(reasoning[i].x),
      Decimal(reasoning[i].y), CostToken(reasoning[i].g),
      CostToken(reasoning[i].h)>>])

\* for (const [x, y] of plan) tokens.push('plan', x, y).
PlanTokens(plan) ==
  Flatten([i \in 1..Len(plan) |->
    <<Keyword.plan, Decimal(plan[i][1]), Decimal(plan[i][2])>>])

RECURSIVE Join(_)
\* tokens.join(' ')
Join(tokens) ==
  IF Len(tokens) = 0 THEN <<>>
  ELSE IF Len(tokens) = 1 THEN tokens[1]
  ELSE Join(SubSeq(tokens, 1, Len(tokens) \div 2)) \o <<" ">>
         \o Join(SubSeq(tokens, (Len(tokens) \div 2) + 1, Len(tokens)))

\* JSON.stringify of a string: quotes around it, a backslash before every
\* quote and backslash (the text holds no control character).
JsonString(text) ==
  <<"\"">>
    \o Flatten([i \in 1..Len(text) |->
         IF text[i] \in {"\"", "\\"} THEN <<"\\", text[i]>> ELSE <<text[i]>>])
    \o <<"\"">>

\* JSON.stringify({ text }) + '\n'
JsonLine(text) ==
  <<"{">> \o JsonString(<<"t", "e", "x", "t">>) \o <<":">> \o JsonString(text)
    \o <<"}", "\n">>

serializeExample(a) ==
  LET sp == a.spec
      tokens == <<Keyword.query, Keyword.start, Decimal(sp.startX),
                  Decimal(sp.startY), Keyword.goal, Decimal(sp.goalX),
                  Decimal(sp.goalY)>>
                  \o WallTokens(sp.grid)
                  \o <<Keyword.reasoning>>
                  \o ReasoningTokens(a.solution.reasoning)
                  \o <<Keyword.solution>>
                  \o PlanTokens(a.solution.plan)
                  \o <<Keyword.end>>
  IN  JsonLine(Join(tokens))

RECURSIVE SeqsUpTo(_, _)
\* The sequences of at most n elements of S.
SeqsUpTo(S, n) ==
  IF n = 0 THEN {<<>>}
  ELSE SeqsUpTo(S, n - 1) \cup {Append(q, e) : q \in SeqsUpTo(S, n - 1), e \in S}

\* Specs, traces and plans given directly: coordinates and costs of one and of
\* two digits, both event types.
SerializeSpecs ==
  [grid : CodecGrids, startX : {0, 10}, startY : {3}, goalX : {1},
   goalY : {0, 12}]

SerializeEvents ==
  {[type |-> "close", x |-> 0, y |-> 1, g |-> 0, h |-> 12],
   [type |-> "create", x |-> 10, y |-> 0, g |-> 11, h |-> 0]}

SerializePlans == SeqsUpTo({<<0, 1>>, <<10, 2>>}, MaxEvents)

SerializeInit ==
  /\ OthersOff
  /\ callee = "serializeExample"
  /\ args \in [spec : SerializeSpecs,
               solution : [reasoning : SeqsUpTo(SerializeEvents, MaxEvents),
                           plan : SerializePlans]]
  /\ wire = <<>>
  /\ result = <<>>
  /\ pcCall = "call"

\* solver-worker.js: const line = serializeExample({spec, solution, ...}).
SerializeCall ==
  /\ callee = "serializeExample"
  /\ pcCall = "call"
  /\ result' = serializeExample(args)
  /\ pcCall' = "serialized"
  /\ UNCHANGED <<pipelineVars, mazeVars, rngVars, callee, args, wire>>

SerializeNext == SerializeCall

SerializeSpec == SerializeInit /\ [][SerializeNext]_vars


\* ---- reading a line back
\* The text of a line {"text":"..."}\n: the characters between the quotes,
\* with the backslash of every escape removed.
Unescape(cs) ==
  LET \* cs[i] is the backslash that opens an escape: an even number of
      \* backslashes stands right before it.
      run(i) == i - 1 - (CHOOSE j \in 0..(i - 1) :
                           /\ j = 0 \/ cs[j] # "\\"
                           /\ \A k \in (j + 1)..(i - 1) : cs[k] = "\\")
      opens(i) == cs[i] = "\\" /\ run(i) % 2 = 0
      kept == {i \in 1..Len(cs) : ~opens(i)}
  IN  IF \A i \in 1..Len(cs) : cs[i] # "\\" THEN cs
      ELSE [k \in 1..Cardinality(kept) |->
              cs[CHOOSE i \in kept : Cardinality({j \in kept : j < i}) = k - 1]]

LinePrefix == <<"{", "\"", "t", "e", "x", "t", "\"", ":", "\"">>
LineSuffix == <<"\"", "}", "\n">>

IsJsonLine(line) ==
  /\ Len(line) >= Len(LinePrefix) + Len(LineSuffix)
  /\ SubSeq(line, 1, Len(LinePrefix)) = LinePrefix
  /\ SubSeq(line, Len(line) - Len(LineSuffix) + 1, Len(line)) = LineSuffix

TextOf(line) ==
  Unescape(SubSeq(line, Len(LinePrefix) + 1, Len(line) - Len(LineSuffix)))

\* The first index from i on at which cs holds a space (Len(cs) + 1: none).
NextSpace(cs, i) ==
  CHOOSE j \in i..(Len(cs) + 1) :
    /\ j = Len(cs) + 1 \/ cs[j] = " "
    /\ \A k \in i..(j - 1) : cs[k] # " "

\* The last index up to i at which cs holds a space (0: none).
PrevSpace(cs, i) ==
  CHOOSE j \in 0..i :
    /\ j = 0 \/ cs[j] = " "
    /\ \A k \in (j + 1)..i : cs[k] # " "

RECURSIVE SplitRange(_, _, _)
\* cs.split(' ') of the characters lo..hi, cut at a space near the middle.
SplitRange(cs, lo, hi) ==
  LET mid == (lo + hi) \div 2
      after == NextSpace(cs, IF mid < lo THEN lo ELSE mid)
      before == PrevSpace(cs, IF mid > hi THEN hi ELSE mid)
      j == IF after <= hi THEN after ELSE before
  IN  IF lo > hi \/ (after > hi /\ before < lo) THEN <<SubSeq(cs, lo, hi)>>
      ELSE SplitRange(cs, lo, j - 1) \o SplitRange(cs, j + 1, hi)

SplitFrom(cs, i) == SplitRange(cs, i, Len(cs))

IsDigit(ch) == \E d \in 1..10 : Digits[d] = ch

\* A decimal integer without leading zeros.
IsInteger(tok) ==
  /\ tok # <<>>
  /\ \A k \in 1..Len(tok) : IsDigit(tok[k])
  /\ Len(tok) > 1 => tok[1] # "0"

RECURSIVE IntegerOf(_)
IntegerOf(tok) ==
  IF tok = <<>> THEN 0
  ELSE 10 * IntegerOf(SubSeq(tok, 1, Len(tok) - 1))
         + (CHOOSE d \in 0..9 : Digits[d + 1] = tok[Len(tok)])

IsCost(tok) == tok # <<>> /\ tok[1] = "c" /\ IsInteger(Tail(tok))

\* The first index from i on at which toks holds the token kw.
IndexOf(toks, kw, i) ==
  CHOOSE j \in i..(Len(toks) + 1) :
    /\ j = Len(toks) + 1 \/ toks[j] = kw
    /\ \A k \in i..(j - 1) : toks[k] # kw

\* The token stream read by the grammar: query start x y goal x y, wall
\* triples, reasoning, events of five tokens, solution, plan triples, end.
ParseTokens(toks) ==
  LET r == IndexOf(toks, Keyword.reasoning, 8)
      so == IndexOf(toks, Keyword.solution, r + 1)
      e == Len(toks)
      nWalls == (r - 8) \div 3
      nEvents == (so - r - 1) \div 5
      nPlan == (e - so - 1) \div 3
      wellFormed ==
        /\ Len(toks) >= 10
        /\ toks[1] = Keyword.query /\ toks[2] = Keyword.start
        /\ toks[5] = Keyword.goal
        /\ \A k \in {3, 4, 6, 7} : IsInteger(toks[k])
        /\ so < e /\ toks[e] = Keyword.end
        /\ (r - 8) % 3 = 0 /\ (so - r - 1) % 5 = 0 /\ (e - so - 1) % 3 = 0
        /\ \A k \in 0..(nWalls - 1) :
             /\ toks[8 + 3 * k] = Keyword.wall
             /\ IsInteger(toks[9 + 3 * k]) /\ IsInteger(toks[10 + 3 * k])
        /\ \A k \in 0..(nEvents - 1) :
             /\ toks[r + 1 + 5 * k] \in {Keyword.close, Keyword.create}
             /\ IsInteger(toks[r + 2 + 5 * k]) /\ IsInteger(toks[r + 3 + 5 * k])
             /\ IsCost(toks[r + 4 + 5 * k]) /\ IsCost(toks[r + 5 + 5 * k])
        /\ \A k \in 0..(nPlan - 1) :
             /\ toks[so + 1 + 3 * k] = Keyword.plan
             /\ IsInteger(toks[so + 2 + 3 * k]) /\ IsInteger(toks[so + 3 + 3 * k])
  IN  IF ~wellFormed THEN [ok |-> FALSE]
      ELSE [ok |-> TRUE,
            start |-> <<IntegerOf(toks[3]), IntegerOf(toks[4])>>,
            goal |-> <<IntegerOf(toks[6]), IntegerOf(toks[7])>>,
            walls |-> [k \in 1..nWalls |->
                         <<IntegerOf(toks[6 + 3 * k]), IntegerOf(toks[7 + 3 * k])>>],
            reasoning |->
              [k \in 1..nEvents |->
                 [type |-> IF toks[r - 4 + 5 * k] = Keyword.close
                           THEN "close" ELSE "create",
                  x |-> IntegerOf(toks[r - 3 + 5 * k]),
                  y |-> IntegerOf(toks[r - 2 + 5 * k]),
                  g |-> IntegerOf(Tail(toks[r - 1 + 5 * k])),
                  h |-> IntegerOf(Tail(toks[r + 5 * k]))]],
            plan |-> [k \in 1..nPlan |->
                        <<IntegerOf(toks[so - 1 + 3 * k]),
                          IntegerOf(toks[so + 3 * k])>>]]

ParseLine(line) ==
  IF IsJsonLine(line) THEN ParseTokens(SplitFrom(TextOf(line), 1))
  ELSE [ok |-> FALSE]

\* The cells of value 0 of a grid, as <<x, y>>, in row-major order.
WallCells(g) ==
  LET c == Len(g[1])
      cell(i) == <<(i - 1) % c, (i - 1) \div c>>
  IN  [k \in 1..Cardinality({i \in 1..(Len(g) * c) : g[cell(i)[2] + 1][cell(i)[1] + 1] = 0}) |->
         cell(CHOOSE i \in 1..(Len(g) * c) :
                /\ g[cell(i)[2] + 1][cell(i)[1] + 1] = 0
                /\ Cardinality({j \in 1..(i - 1) :
                                  g[cell(j)[2] + 1][cell(j)[1] + 1] = 0}) = k - 1)]

Serialized == callee = "serializeExample" /\ pcCall = "serialized"

\* C22: the line serializeExample builds is {"text":"..."}\n whose tokens,
\* split at the spaces and read by the grammar query start x y goal x y, wall
\* x y ..., reasoning, events, solution, plan x y ..., end, give back the
\* start, the goal, the cells of value 0 in row-major order, the reasoning
\* trace and the plan it was called with.
C22_SerializedParsesBack ==
  Serialized =>
    LET parsed == ParseLine(result)
    IN  /\ parsed.ok
        /\ parsed.start = <<args.spec.startX, args.spec.startY>>
        /\ parsed.goal = <<args.spec.goalX, args.spec.goalY>>
        /\ parsed.walls = WallCells(args.spec.grid)
        /\ parsed.reasoning = args.solution.reasoning
        /\ parsed.plan = args.solution.plan

\* A line with walls in two rows, both event types, two-digit numbers and a
\* plan of two cells has been built and read back.
C22_Witness ==
  /\ Serialized
  /\ args.spec.grid = <<<<0, 1>>, <<0, 0>>>>
  /\ args.spec.startX = 10
  /\ args.spec.goalY = 12
  /\ Len(args.solution.reasoning) = 2
  /\ args.solution.reasoning[1].type # args.solution.reasoning[2].type
  /\ args.solution.plan = <<<<0, 1>>, <<10, 2>>>>
  /\ ParseLine(result).ok
  /\ ParseLine(result).walls = <<<<0, 0>>, <<0, 1>>, <<1, 1>>>>


\* ========================================================= solver pool size
\* The computation of numWorkers at the head of generateDatasetParallel, for
\* any config.workers (<<>>: not given, <<n>>: given as n), CPU count and
\* count.
MaxRequested == 4
MaxCpus == 6
MaxSmallCount == 3

\* Faulty variant of PoolSize: no cap for small counts.
PoolSizeUncapped(requestedWorkers, cpuCount, count) ==
  Min(IF requestedWorkers # <<>> /\ requestedWorkers[1] # 0
      THEN requestedWorkers[1] ELSE Max(1, cpuCount - 2), count)

\* let numWorkers = requestedWorkers || Math.max(1, cpuCount - 2);
\* numWorkers = Math.min(numWorkers, count);
\* if (count < 100) numWorkers = Math.min(2, numWorkers);
PoolSize(requestedWorkers, cpuCount, count) ==
  LET n == Min(IF requestedWorkers # <<>> /\ requestedWorkers[1] # 0
               THEN requestedWorkers[1] ELSE Max(1, cpuCount - 2), count)
  IN  IF count < SmallCountLimit THEN Min(SmallCountWorkers, n) ELSE n

PoolInit ==
  /\ OthersOff
  /\ callee = "numWorkers"
  /\ args \in [requestedWorkers : {<<>>} \cup {<<n>> : n \in -1..MaxRequested},
               cpuCount : 1..MaxCpus,
               count : (0..MaxSmallCount)
                         \cup {SmallCountLimit - 1, SmallCountLimit,
                               SmallCountLimit + MaxRequested}]
  /\ wire = <<>>
  /\ result = <<>>
  /\ pcCall = "call"

PoolCall ==
  /\ callee = "numWorkers"
  /\ pcCall = "call"
  /\ result' = PoolSize(args.requestedWorkers, args.cpuCount, args.count)
  /\ pcCall' = "computed"
  /\ UNCHANGED <<pipelineVars, mazeVars, rngVars, callee, args, wire>>

PoolNext == PoolCall

PoolSpec == PoolInit /\ [][PoolNext]_vars

PoolComputed == callee = "numWorkers" /\ pcCall = "computed"

\* requested ?? cpus - 2
RequestedOrCpus ==
  IF args.requestedWorkers = <<>> THEN args.cpuCount - 2
  ELSE args.requestedWorkers[1]

\* C23: the pool size is max(1, min(count, requested ?? cpus - 2)), capped to
\* 2 when count < 100, and is at least 1.
C23_PoolSizeFormula ==
  PoolComputed =>
    LET n == Max(1, Min(args.count, RequestedOrCpus))
    IN  /\ result = IF args.count < 100 THEN Min(2, n) ELSE n
        /\ result >= 1

\* C23, amended: for a count of at least 1 and a requested worker count that
\* is absent or at least 1 the pool size is max(1, min(count, requested ??
\* cpus - 2)), capped to 2 when count < 100, and at least 1; for count = 0 it
\* is 0 or the negative number requested, for a requested count of 0 it is
\* what it is when none is requested, and for a negative one it is that
\* number.
C23_PoolSizeForPositiveInputs ==
  PoolComputed =>
    LET req == args.requestedWorkers
        n == Max(1, Min(args.count, RequestedOrCpus))
    IN  /\ (args.count >= 1 /\ (req = <<>> \/ req[1] >= 1)) =>
             /\ result = IF args.count < 100 THEN Min(2, n) ELSE n
             /\ result >= 1
        /\ args.count = 0 => result = IF req # <<>> /\ req[1] < 0 THEN req[1] ELSE 0
        /\ (req # <<>> /\ req[1] = 0) =>
             result = PoolSize(<<>>, args.cpuCount, args.count)
        /\ (req # <<>> /\ req[1] < 0) => result = req[1]

\* The default of cpus - 2 workers was cut by the cap for small counts, and a
\* count of 100 took four requested workers.
C23_Witness ==
  /\ PoolComputed
  /\ \/ /\ args.requestedWorkers = <<>>
        /\ args.cpuCount = MaxCpus
        /\ args.count = SmallCountLimit - 1
        /\ result = 2
     \/ /\ args.requestedWorkers = <<MaxRequested>>
        /\ args.count = SmallCountLimit
        /\ result = MaxRequested


\* ------------------------------------------------- generator error message
\* generateSync threw at index faults.generator and main has recorded the
\* producer's 'error' message.
GeneratorErrorRecorded ==
  /\ opts.generatorId \in generators
  /\ faults.generator >= 0
  /\ generationError.kind = "producer"

\* C24: when generateSync throws at example index i, the error the
\* orchestrator records, which is the one the consumer is to throw, names
\* the index i.
C24_ErrorNamesFailingIndex ==
  GeneratorErrorRecorded =>
    generationError.failedAt = ToString(faults.generator)


\* ------------------------------------------------------ producer's batches
\* The messages a step appends to the producer's port towards main.
NewToMain == SubSeq(toMain', Len(toMain) + 1, Len(toMain'))

NewBatches == SelectSeq(NewToMain, LAMBDA m : m.type = "batch")

\* C25: every batch the producer sends is the range of example indices that
\* starts where the batches sent before it end (generatedCount) and has the
\* length of the batch size the producer holds when it starts the batch,
\* clipped to count; a step that sends no batch generates nothing; 'complete'
\* is sent when the batches sent cover 0..count-1.  The batch size the
\* producer holds is the one of the last update_batch_size message it has
\* processed, so a change moves batch boundaries only.
C25_BatchesContiguous ==
  [][/\ Len(NewBatches) <= 1
     /\ Len(NewBatches) = 1 =>
          LET b == NewBatches[1]
          IN  /\ b.batchStart = generatedCount
              /\ Len(b.batch) >= 1
              /\ Len(b.batch) = Min(producerConfig, opts.count - generatedCount)
              /\ \A j \in 1..Len(b.batch) : b.batch[j].idx = generatedCount + j - 1
              /\ generatedCount' = generatedCount + Len(b.batch)
     /\ Len(NewBatches) = 0 => generatedCount' = generatedCount
     /\ (\E k \in 1..Len(NewToMain) : NewToMain[k].type = "complete") =>
          generatedCount' = opts.count]_vars

\* A later update_batch_size message has been applied: a batch longer than
\* the initial batch size, and starting at an index that is no multiple of its
\* length, has been sent after shorter ones.
C25_Witness ==
  \E k \in PostedBatches :
    /\ Len(toMain[k].batch) > config.batchSize
    /\ toMain[k].batchStart % Len(toMain[k].batch) # 0
    /\ toMain[k].batchStart + Len(toMain[k].batch) = generatedCount


\* ------------------------------------------------------ promises of batches
\* C26: the batchStart of every batch the producer generates is a key of
\* batchPromises whose promise is still pending, so that the lines a solver
\* worker returns for it reach the consumer.
C26_BatchStartHasPendingPromise ==
  \A k \in PostedBatches :
    /\ toMain[k].batchStart \in DOMAIN batchPromises
    /\ batchPromises[toMain[k].batchStart].state = "pending"


\* --------------------------------------------------------- dynamic batching
\* C27: currentBatchSize changes only in a step in which the dispatcher hands
\* a batch to a worker, and then only if, this batch counted, more than
\* numWorkers + 1 batches have been dispatched, the pending queue is left
\* empty and a worker is left idle; the new value is min(2 * old,
\* maxBatchSize), and the step posts an update_batch_size message carrying it
\* to the producer.
C27_BatchSizeChangesOnDispatchOnly ==
  [][currentBatchSize' # currentBatchSize =>
       /\ dispatchedBatchCount' = dispatchedBatchCount + 1
       /\ \E w \in Workers :
            /\ solver[w].phase = "idle"
            /\ solver'[w].phase = "inbox"
            /\ solver'[w].batchStart = Head(generatedBatchQueue).batchStart
       /\ dispatchedBatchCount' > numWorkers + 1
       /\ generatedBatchQueue' = <<>>
       /\ Len(availableWorkers') > 0
       /\ currentBatchSize' = Min(2 * currentBatchSize, config.maxBatchSize)
       /\ Len(toProducer') = Len(toProducer) + 2
       /\ toProducer'[Len(toProducer')] =
            [type |-> "update_batch_size", newBatchSize |-> currentBatchSize']
    ]_vars

\* The batch size has grown to a maxBatchSize below twice the old size, and
\* the message carrying it is on its way to the producer.
C27_Witness ==
  /\ currentBatchSize > config.batchSize
  /\ currentBatchSize = config.maxBatchSize
  /\ currentBatchSize < 2 * config.batchSize
  /\ dispatchedBatchCount > numWorkers + 1
  /\ \E k \in 1..Len(toProducer) :
       toProducer[k] = [type |-> "update_batch_size",
                        newBatchSize |-> currentBatchSize]

\* ------------------------------------------------------- batches as a whole
\* The batch a worker was handed is the batch the producer's message carried:
\* OnBatch queues the message's batch and the dispatcher hands over the head
\* of the queue, both unchanged.
BatchHandedUnchanged ==
  /\ Len(generatedBatchQueue') > Len(generatedBatchQueue) =>
       /\ toMain # <<>>
       /\ Head(toMain).type = "batch"
       /\ generatedBatchQueue' =
            Append(generatedBatchQueue,
                   [batchStart |-> Head(toMain).batchStart,
                    batch |-> Head(toMain).batch])
  /\ \A w \in Workers :
       (solver[w].phase # "inbox" /\ solver'[w].phase = "inbox") =>
         /\ generatedBatchQueue # <<>>
         /\ solver'[w].batchStart = Head(generatedBatchQueue).batchStart
         /\ solver'[w].batch = Head(generatedBatchQueue).batch

\* A worker's reply is an error without lines, or one line for every example
\* of the batch it was handed, in the batch's order.
ReplyIsWholeBatch ==
  \A w \in Workers :
    (solver[w].phase = "inbox" /\ solver'[w].phase = "reply") =>
      IF solver'[w].error
      THEN solver'[w].lines = <<>>
      ELSE /\ Len(solver'[w].lines) = Len(solver[w].batch)
           /\ \A i \in 1..Len(solver[w].batch) :
                solver'[w].lines[i].idx = solver[w].batch[i].idx
           /\ \A i \in 1..Len(solver[w].batch) :
                solver[w].batch[i].idx # faults.solver

\* A batch promise that stays in batchPromises changes only by being resolved
\* with all the lines of one worker's reply.
ResolvedWithWholeReply ==
  \A k \in DOMAIN batchPromises \cap DOMAIN batchPromises' :
    batchPromises'[k] # batchPromises[k] =>
      /\ batchPromises[k].state = "pending"
      /\ batchPromises'[k].state = "resolved"
      /\ \E w \in Workers :
           /\ solver[w].phase = "reply"
           /\ ~solver[w].error
           /\ solver[w].batchStart = k
           /\ batchPromises'[k].lines = solver[w].lines

\* What is yielded in one step is all the lines of the resolved promise the
\* consumer awaited: one line for each index from the batch's start on.
YieldIsWholeBatch ==
  yielded' # yielded =>
    LET key == AwaitedKey(nextYieldIdx)
    IN  /\ key \in DOMAIN batchPromises
        /\ batchPromises[key].state = "resolved"
        /\ batchPromises[key].lines # <<>>
        /\ yielded' = yielded \o batchPromises[key].lines
        /\ \A i \in 1..Len(batchPromises[key].lines) :
             batchPromises[key].lines[i].idx = key + i - 1

\* The lines a failed batch had before the failing example, and the failing
\* example itself, are not among the yielded lines.
FailedBatchNotYielded ==
  /\ \A i \in 1..Len(yielded) : yielded[i].idx # faults.solver
  /\ \A w \in Workers :
       (solver[w].phase = "reply" /\ solver[w].error) =>
         \A i \in 1..Len(yielded) :
           ~(yielded[i].idx \in solver[w].batchStart..faults.solver)
  /\ generationError.kind = "solver" =>
       \A i \in 1..Len(yielded) :
         ~(yielded[i].idx \in generationError.batchStart..faults.solver)

\* C28: a batch is yielded only as a whole.  The batch travels unchanged from
\* the producer's message to a worker; the worker answers with one line for
\* every example of it or with an error and no line; a batch promise is
\* resolved with all the lines of one reply; one yield appends all the lines
\* of the awaited promise; and no line of a batch whose solving failed is
\* ever among the yielded lines.
C28_BatchYieldedWhole ==
  /\ []FailedBatchNotYielded
  /\ [][/\ BatchHandedUnchanged
        /\ ReplyIsWholeBatch
        /\ ResolvedWithWholeReply
        /\ YieldIsWholeBatch]_vars

\* A batch of more than one line has been yielded whole, and the batch after
\* it failed in a worker at an example that is not its first: the yielded
\* lines end where the failed batch starts.
C28_Witness ==
  /\ generationError.kind = "solver"
  /\ faults.solver > generationError.batchStart
  /\ Len(lines) > 1
  /\ yielded = lines
  /\ Len(yielded) = generationError.batchStart

\* ----------------------------------------------------------------- wake-ups
\* What the event loops of the three kinds of thread run without being asked:
\* a worker handles a message that is queued for it, and the main thread runs
\* a handler, the dispatcher or a continuation of the consumer that is ready.
\* Only ConsumerResume is left out: it is downstream's call of next().
Scheduled ==
  \/ ProducerInit
  \/ ProducerCredit
  \/ ProducerUpdateBatchSize
  \/ ProducerGenerateBatch
  \/ ProducerGenerateError
  \/ \E w \in Workers : SolverSolve(w)
  \/ \E w \in Workers : SolverFail(w)
  \/ OnBatch
  \/ OnComplete
  \/ OnError
  \/ \E w \in Workers : OnSolverLines(w)
  \/ \E w \in Workers : OnSolverError(w)
  \/ DispatcherExit
  \/ DispatcherThrow
  \/ DispatcherDispatch
  \/ DispatcherWait
  \/ ConsumerThrow
  \/ ConsumerYield
  \/ ConsumerJoin

\* The runs whose wake-ups are followed to their end: those of at most
\* MaxBatches examples, with every batchSize, maxBatchSize, producerBuffer,
\* workers and failing example of ShortRun.
FairInit ==
  /\ Init
  /\ opts.count <= MaxBatches

\* The pipeline under the scheduling of node's event loops: a task that is
\* ready is run in the end.  Every run is finite, so weak fairness of the
\* tasks taken together says that no run stops while one of them is ready.
FairSpec == FairInit /\ [][Next]_vars /\ WF_vars(Scheduled)

\* The indices at which a batch can start in these runs.
BatchStarts == 0..(MaxBatches - 1)

InQueue(b) ==
  \E i \in 1..Len(generatedBatchQueue) : generatedBatchQueue[i].batchStart = b

CreditInFlight ==
  \E i \in 1..Len(toProducer) : toProducer[i].type = "credit"

\* A waiter is blocked only while what it waits for is missing, and the slot
\* of what is missing holds the resolver of the promise it awaits.
NoWaiterBlocked ==
  /\ pcDispatcher = "wait" =>
       /\ ~(Len(generatedBatchQueue) > 0 /\ Len(availableWorkers) > 0)
       /\ Len(availableWorkers) > 0 => notifyNewBatch = "live"
       /\ Len(generatedBatchQueue) > 0 => notifyWorkerAvailable = "live"
       /\ notifyNewBatch = "live" \/ notifyWorkerAvailable = "live"
  /\ pcProducer = "wait" => credits <= 0

\* The step in which the producer handles a credit message while generate()
\* waits for a credit: generate() resumes.
CreditResumes ==
  (/\ pcProducer = "wait"
   /\ toProducer # <<>>
   /\ Head(toProducer).type = "credit"
   /\ toProducer' = Tail(toProducer)) => pcProducer' # "wait"

\* C29 as stated: whenever a batch is in the pending queue and a worker is in
\* the pool, the dispatcher dispatches that batch in the end; whenever the
\* producer waits for a credit and a credit message is delivered, the
\* producer resumes; no waiter is blocked while its condition holds.
C29_NoLostWakeUp ==
  /\ []NoWaiterBlocked
  /\ [][CreditResumes]_vars
  /\ \A b \in BatchStarts :
       (InQueue(b) /\ Len(availableWorkers) > 0) ~> ~InQueue(b)

\* C29, amended: the batch is dispatched in the end unless an error is
\* recorded (the dispatcher then throws at its next pass and dispatches
\* nothing more) or the generator has returned or thrown; and a credit
\* message on its way to a waiting producer is delivered and resumes it
\* unless the generator has returned or thrown (its finally block terminates
\* the workers).
C29_NoLostWakeUpUnlessStopped ==
  /\ []NoWaiterBlocked
  /\ [][CreditResumes]_vars
  /\ \A b \in BatchStarts :
       (InQueue(b) /\ Len(availableWorkers) > 0)
         ~> (~InQueue(b) \/ generationError # NoError \/ Exited)
  /\ (pcProducer = "wait" /\ CreditInFlight)
       ~> (pcProducer # "wait" \/ Exited)

\* The dispatcher has been woken (it runs after a dispatch with every worker
\* in the pool) with a batch in the queue, and the producer waits for a
\* credit while a credit message is on its way; no error is recorded.
C29_Witness ==
  /\ pcDispatcher = "run"
  /\ dispatchedBatchCount > 0
  /\ Len(generatedBatchQueue) > 0
  /\ Len(availableWorkers) = numWorkers
  /\ pcProducer = "wait"
  /\ CreditInFlight
  /\ generationError = NoError

\* ------------------------------------------------------ extractLowestFScore
MaxOpen == 3
MaxFScore == 2

\* The nodes of a grid of two rows and two columns, as <<x, y>>.
OpenNodes == {<<x, y>> : x \in 0..1, y \in 0..1}

\* The open sets of solveSync: not empty (the while loop's condition) and
\* without a node twice (a node is pushed only when it is not in the list).
OpenSets ==
  {os \in UNION {[1..n -> OpenNodes] : n \in 1..MaxOpen} :
     \A i, j \in 1..Len(os) : i # j => os[i] # os[j]}

ExtractInit ==
  /\ OthersOff
  /\ callee = "extractLowestFScore"
  /\ args \in [openSet : OpenSets, fScore : [OpenNodes -> 0..MaxFScore]]
  /\ wire = <<>>
  /\ result = <<>>
  /\ pcCall = "call"

\* `const current = extractLowestFScore(openSet, fScore)`: the entry removed
\* and the open set that is left.
ExtractCall ==
  /\ callee = "extractLowestFScore"
  /\ pcCall = "call"
  /\ LET i == extractLowestFScore(args.openSet, args.fScore)
     IN  result' = [index |-> i, current |-> args.openSet[i],
                    openSet |-> RemoveAt(args.openSet, i)]
  /\ pcCall' = "extracted"
  /\ UNCHANGED <<pipelineVars, mazeVars, rngVars, callee, args, wire>>

ExtractNext == ExtractCall

ExtractSpec == ExtractInit /\ [][ExtractNext]_vars

Extracted == callee = "extractLowestFScore" /\ pcCall = "extracted"

\* C30: the entry extractLowestFScore removes from the open set has the
\* minimum fScore of all open entries and, among the entries with that
\* minimum, the smallest index in the list; the other entries stay, in order.
C30_RemovesFirstOfLowest ==
  Extracted =>
    LET os == args.openSet
        f == args.fScore
        i == result.index
    IN  /\ i \in 1..Len(os)
        /\ result.current = os[i]
        /\ \A j \in 1..Len(os) : f[os[i]] <= f[os[j]]
        /\ \A j \in 1..(i - 1) : f[os[j]] > f[os[i]]
        /\ Len(result.openSet) = Len(os) - 1
        /\ \A j \in 1..Len(result.openSet) :
             result.openSet[j] = IF j < i THEN os[j] ELSE os[j + 1]

\* Three open entries, the lowest fScore shared by the second and the third:
\* the second is removed.
C30_Witness ==
  /\ Extracted
  /\ Len(args.openSet) = 3
  /\ args.fScore[args.openSet[2]] = args.fScore[args.openSet[3]]
  /\ args.fScore[args.openSet[1]] > args.fScore[args.openSet[2]]
  /\ result.index = 2

\* ==================================================== astar.solveSync, stepwise
\* The search of solveSync one pass at a time: result holds the arrays and the
\* open set (st), the node just closed (current) and the direction the for
\* loop is at (d); pcCall is "open" at the head of the while loop, "relax"
\* inside the for loop and "searched" after the loop.
MaxAstarSide == 3
MaxAstarCells == 6

AstarShapes ==
  {sh \in (1..MaxAstarSide) \X (1..MaxAstarSide) :
     sh[1] * sh[2] >= 2 /\ sh[1] * sh[2] <= MaxAstarCells}

\* The contexts the solver worker builds: any grid, start and goal passages.
AstarContexts ==
  UNION {UNION {{Ctx(sh[1], sh[2], MazeSpecOf(g, start, goal)) :
                   start \in Passages(g), goal \in Passages(g)} :
                g \in [Cells(sh[1], sh[2]) -> {0, 1}]} :
         sh \in AstarShapes}

\* A grid larger than those: a ring of passages around a wall, and a passage
\* that no other passage touches; grid[y][x] is RingRows[y + 1][x + 1].
RingRows == <<<<0, 1, 1, 1>>,
              <<0, 1, 0, 1>>,
              <<0, 1, 1, 1>>,
              <<1, 0, 0, 0>>>>

RingGrid ==
  [p \in Cells(Len(RingRows), Len(RingRows[1])) |-> RingRows[p[2] + 1][p[1] + 1]]

RingContexts ==
  {Ctx(Len(RingRows), Len(RingRows[1]), MazeSpecOf(RingGrid, start, goal)) :
     start \in Passages(RingGrid), goal \in Passages(RingGrid)}

AstarInit ==
  /\ OthersOff
  /\ callee = "solveSync"
  /\ args \in AstarContexts \cup RingContexts
  /\ wire = <<>>
  /\ result = [st |-> AstarStart(args), current |-> <<>>, d |-> 0]
  /\ pcCall = "open"

\* The head of a pass of the while loop, up to the for loop: the loop ends on
\* an empty open set and by the break on the goal.
AstarClose ==
  /\ callee = "solveSync"
  /\ pcCall = "open"
  /\ IF Len(result.st.openSet) = 0
     THEN /\ pcCall' = "searched"
          /\ UNCHANGED result
     ELSE LET closed == CloseLowest(result.st, args)
              current == Current(closed)
          IN  IF current = <<args.goalX, args.goalY>>
              THEN /\ result' = [st |-> [closed EXCEPT !.found = TRUE],
                                 current |-> current, d |-> 0]
                   /\ pcCall' = "searched"
              ELSE /\ result' = [st |-> [closed EXCEPT
                                           !.closedSet = @ \cup {current}],
                                 current |-> current, d |-> 1]
                   /\ pcCall' = "relax"
  /\ UNCHANGED <<pipelineVars, mazeVars, rngVars, callee, args, wire>>

\* One pass of the for loop over DIRS.
AstarRelax ==
  /\ callee = "solveSync"
  /\ pcCall = "relax"
  /\ result' = [st |-> RelaxOne(result.st, args, result.current, result.d),
                current |-> result.current,
                d |-> IF result.d < Len(DIRS) THEN result.d + 1 ELSE 0]
  /\ pcCall' = IF result.d < Len(DIRS) THEN "relax" ELSE "open"
  /\ UNCHANGED <<pipelineVars, mazeVars, rngVars, callee, args, wire>>

AstarNext == AstarClose \/ AstarRelax

AstarSpec == AstarInit /\ [][AstarNext]_vars

\* The cell the for loop looks at in the pass about to run.
Neighbor ==
  <<result.current[1] + DIRS[result.d][1], result.current[2] + DIRS[result.d][2]>>

InBounds(p) ==
  p[1] >= 0 /\ p[1] < args.cols /\ p[2] >= 0 /\ p[2] < args.rows

\* The pass of the for loop about to run looks at a passage inside the grid.
AtNeighbor ==
  /\ callee = "solveSync"
  /\ pcCall = "relax"
  /\ InBounds(Neighbor)
  /\ args.grid[Neighbor] = 1

\* The events the step has added to the trace.
NewEvents ==
  SubSeq(result'.st.reasoning, Len(result.st.reasoning) + 1,
         Len(result'.st.reasoning))

CreateEvent(n, g) ==
  [type |-> "create", x |-> n[1], y |-> n[2], g |-> g,
   h |-> heuristic(n[1], n[2], args.goalX, args.goalY)]

\* C31: in a pass of the for loop on a neighbour (a passage inside the grid)
\* one create event for it is emitted when the tentative g-cost is strictly
\* smaller than its stored gScore, and none otherwise, whether or not the
\* neighbour is in the open set; the open set gains the neighbour at its end
\* when a create event is emitted and the neighbour is not in it, and does
\* not change otherwise.
C31_CreateOnImprovement ==
  [][AtNeighbor =>
       LET n == Neighbor
           tentativeG == result.st.gScore[result.current] + 1
           old == result.st.openSet
       IN  IF tentativeG < result.st.gScore[n]
           THEN /\ NewEvents = <<CreateEvent(n, tentativeG)>>
                /\ result'.st.gScore[n] = tentativeG
                /\ result'.st.openSet =
                     IF InSeq(old, n) THEN old ELSE Append(old, n)
           ELSE /\ NewEvents = <<>>
                /\ result'.st.openSet = old
    ]_vars

\* A create event has just been emitted for a neighbour that was in the open
\* set already, with a worse score: the open set holds it once.
C31_Witness ==
  /\ callee = "solveSync"
  /\ pcCall \in {"relax", "open"}
  /\ result.st.reasoning # <<>>
  /\ LET ev == result.st.reasoning[Len(result.st.reasoning)]
     IN  /\ ev.type = "create"
         /\ \E k \in 1..(Len(result.st.reasoning) - 1) :
              LET before == result.st.reasoning[k]
              IN  /\ before.type = "create"
                  /\ before.x = ev.x /\ before.y = ev.y
                  /\ before.g > ev.g
         /\ Cardinality({k \in 1..Len(result.st.openSet) :
                           result.st.openSet[k] = <<ev.x, ev.y>>}) = 1

\* The search under the scheduling of a running function: its next step is
\* taken.
AstarFairSpec == AstarSpec /\ WF_vars(AstarNext)

Searching == callee = "solveSync"

\* The close events of the trace so far.
ClosesSoFar ==
  SelectSeq(result.st.reasoning, LAMBDA ev : ev.type = "close")

OpenSetSound ==
  LET os == result.st.openSet
  IN  /\ \A i, j \in 1..Len(os) : i # j => os[i] # os[j]
      /\ \A i \in 1..Len(os) : os[i] \notin result.st.closedSet
      /\ \A i \in 1..Len(os) : result.st.gScore[os[i]] < Infinity

ClosedOnce ==
  /\ \A i, j \in 1..Len(ClosesSoFar) :
       i # j => <<ClosesSoFar[i].x, ClosesSoFar[i].y>>
                  # <<ClosesSoFar[j].x, ClosesSoFar[j].y>>
  /\ Len(ClosesSoFar) <= args.rows * args.cols

\* C32: at every point of solveSync the open set holds no cell twice and no
\* closed cell, every open cell has a finite gScore, and no cell has two
\* close events, so that there are at most rows * cols of them; and the
\* search ends.
C32_OpenSetSoundAndSearchEnds ==
  /\ [](Searching => OpenSetSound /\ ClosedOnce)
  /\ (Searching /\ pcCall = "open") ~> (pcCall = "searched")

\* The search has ended on an empty open set after closing every passage of
\* a grid of six cells with more than one passage and never the goal.
C32_Witness ==
  /\ Searching
  /\ pcCall = "searched"
  /\ ~result.st.found
  /\ Len(ClosesSoFar) > 1
  /\ Len(ClosesSoFar) = Cardinality(Passages(args.grid)) - 1
  /\ args.rows * args.cols = MaxAstarCells

\* The cells of the events of the trace so far.
EventCells ==
  {<<result.st.reasoning[k].x, result.st.reasoning[k].y>> :
     k \in 1..Len(result.st.reasoning)}

\* C33: with start on a passage every close and create event is on a passage
\* inside the grid, and so is every cell of the open set and of the closed
\* set; a pass of the for loop on a coordinate outside the grid or on a wall
\* changes nothing.
C33_EventsOnPassagesInBounds ==
  /\ [](Searching =>
         \A p \in EventCells \cup result.st.closedSet
                  \cup {result.st.openSet[k] : k \in 1..Len(result.st.openSet)} :
           InBounds(p) /\ args.grid[p] = 1)
  /\ [][(Searching /\ pcCall = "relax" /\ ~AtNeighbor)
          => result'.st = result.st]_vars

\* The search has closed a cell in a corner of the grid next to a wall: two
\* of its passes looked outside the grid, one at a wall, and one created the
\* event of the only neighbour.
C33_Witness ==
  /\ Searching
  /\ pcCall = "open"
  /\ result.current = <<0, 0>>
  /\ args.cols > 1 /\ args.rows > 1
  /\ args.grid[<<1, 0>>] = 0
  /\ args.grid[<<0, 1>>] = 1
  /\ result.st.reasoning[Len(result.st.reasoning)].type = "create"
  /\ EventCells = {<<0, 0>>, <<0, 1>>}

\* --------------------------------------------------------------------------
\* wilson.generateSync (MazeSpec)
\* --------------------------------------------------------------------------
\* A loop-erased walk is in its `while (true)` loop.
Walking == generatorId = "wilson" /\ pcGen = "walk"

PathCells(path) == {path[j] : j \in 1..Len(path)}

PathSimple ==
  \A i, j \in 1..Len(loc.path) : i # j => loc.path[i] # loc.path[j]

IndexMapExact ==
  /\ DOMAIN loc.indexMap = PathCells(loc.path)
  /\ \A j \in 1..Len(loc.path) : loc.indexMap[loc.path[j]] = j - 1

\* The end of the path moved by a direction.
Ahead(dir) ==
  LET c == loc.path[Len(loc.path)]
  IN  <<c[1] + dir[1], c[2] + dir[2]>>

\* C34: during a walk the path has no cell twice and the index map maps
\* exactly the cells of the path to their indexes; a pass that draws a
\* neighbour outside the grid changes neither, a pass that draws a cell of
\* the path at index idx leaves the first idx + 1 entries of the path, and
\* any other pass that continues the walk appends the neighbour.
C34_LoopErasedWalk ==
  /\ [](Walking => PathSimple /\ IndexMapExact)
  /\ [][(Walking /\ Walking')
          => LET n == Ahead(loc'.dir)
             IN  IF n \notin Cells(rows, cols)
                 THEN /\ loc'.path = loc.path
                      /\ loc'.indexMap = loc.indexMap
                 ELSE IF n \in PathCells(loc.path)
                 THEN \E idx \in 0..(Len(loc.path) - 1) :
                        /\ loc.path[idx + 1] = n
                        /\ loc'.path = SubSeq(loc.path, 1, idx + 1)
                 ELSE loc'.path = Append(loc.path, n)]_vars

\* A walk has just erased a loop: the last draw was not one out of the grid
\* (the cell ahead in that direction is in the grid), and it was not an
\* extension of the path (the cell behind is not the one before the end).
C34_Witness ==
  /\ Walking
  /\ loc.dir # <<0, 0>>
  /\ Ahead(loc.dir) \in Cells(rows, cols)
  /\ \/ Len(loc.path) = 1
     \/ loc.path[Len(loc.path) - 1] # Ahead(<<-loc.dir[1], -loc.dir[2]>>)
  /\ Ahead(<<-loc.dir[1], -loc.dir[2]>>) \in loc.rooms \ PathCells(loc.path)

\* The walks are over: the generator is picking start and goal, or returned.
WilsonDone ==
  /\ generatorId = "wilson"
  /\ pcGen \in {"pick", "returned", "replied"}

RECURSIVE Region(_, _)
\* The passages of g that a chain of adjacent passages joins to one of seen.
Region(g, seen) ==
  LET more == Around(g, seen) \ seen
  IN  IF more = {} THEN seen ELSE Region(g, seen \cup more)

\* The pairs of adjacent passages of g.
PassageEdges(g) ==
  {{pq[1], pq[2]} :
     pq \in {x \in Passages(g) \X Passages(g) : Adjacent(x[1], x[2])}}

\* The passages of g are one connected region without a cycle.
IsTree(g) ==
  /\ \A p \in Passages(g) : Region(g, {p}) = Passages(g)
  /\ Cardinality(PassageEdges(g)) = Cardinality(Passages(g)) - 1

\* C35: when the walks of wilson.generateSync are over every room is a
\* passage, the carved cells that are not rooms are one fewer than the
\* rooms, and the passages are connected and acyclic; and every walk that
\* ends puts at least one more room into the maze.
C35_WilsonPerfectMaze ==
  /\ [](WilsonDone =>
         /\ loc.rooms \subseteq Passages(grid)
         /\ Cardinality(Passages(grid) \ loc.rooms) = Cardinality(loc.rooms) - 1
         /\ IsTree(grid))
  /\ [][(Walking /\ pcGen' = "root")
          => /\ loc.inMaze \subseteq loc'.inMaze
             /\ loc'.inMaze # loc.inMaze
             /\ loc'.inMaze \subseteq loc.rooms]_vars

\* wilson.generateSync has returned a maze of four rooms on a 3x3 grid.
C35_Witness ==
  /\ generatorId = "wilson"
  /\ pcGen = "returned"
  /\ Cardinality(loc.rooms) = 4
  /\ Cardinality(Passages(grid)) = 7

\* --------------------------------------------------------------------------
\* dfs.generateSync (MazeFairSpec)
\* --------------------------------------------------------------------------
\* The carve loop of dfs.generateSync is straight-line code in one call: its
\* next pass always runs.
MazeFairSpec == MazeSpec /\ WF_vars(DfsStep)

\* dfs.generateSync is in its carve loop.
DfsCarving == generatorId = "dfs" /\ pcGen = "loop"

\* The carve loop is over: the generator is picking start and goal, or
\* returned.
DfsCarved ==
  /\ generatorId = "dfs"
  /\ pcGen \in {"pick", "returned", "replied"}

DrunkWalking == generatorId = "drunkards_walk" /\ pcGen = "loop"

\* The walk loop of drunkards_walk.generateSync is over.
DrunkWalked ==
  /\ generatorId = "drunkards_walk"
  /\ pcGen \in {"pick", "returned", "replied"}

\* C38: from the first carved cell on, carved is the number of passages and
\* the walker stands on a passage inside the grid; when the loop is over
\* the passages are max(2, min(total, floor(total * coverage))) in number
\* and each is joined to every other by a chain of adjacent passages.
C38_DrunkWalkCarvesTarget ==
  /\ (DrunkWalking \/ DrunkWalked)
       => /\ loc.carved = Cardinality(Passages(grid))
          /\ <<loc.x, loc.y>> \in Cells(rows, cols)
          /\ grid[<<loc.x, loc.y>>] = 1
  /\ DrunkWalked
       => LET total == rows * cols
              floor == (total * loc.coverage[1]) \div loc.coverage[2]
              least == IF total < floor THEN total ELSE floor
          IN  /\ Cardinality(Passages(grid)) = IF least < 2 THEN 2 ELSE least
              /\ \A p \in Passages(grid) : Region(grid, {p}) = Passages(grid)

\* A walk with coverage 3/4 on a grid of ten cells is over, with seven
\* passages, after a step onto a cell that was a passage already.
C38_Witness ==
  /\ generatorId = "drunkards_walk"
  /\ pcGen = "pick"
  /\ loc.coverage = <<3, 4>>
  /\ rows * cols = 10
  /\ Cardinality(Passages(grid)) = 7
  /\ Cardinality(Around(grid, {<<loc.x, loc.y>>})) > 1

\* --------------------------------------------------------------------------
\* cellular_automata.generateSync (CaFairSpec)
\* --------------------------------------------------------------------------
\* generateSync is straight-line code in one call: the fill and iterations
\* run, and the selection loop ends whenever a draw can end it.
\* Calls of cellular_automata.generateSync on grids of up to MaxCaCells cells.
MaxCaCells == 8

CaInit ==
  /\ PipelineOff
  /\ RngOff
  /\ CallOff
  /\ GeneratorCall
  /\ loc = <<>>
  /\ solution = <<>>
  /\ reply = "none"
  /\ generatorId = "cellular_automata"
  /\ rows * cols <= MaxCaCells

CaNext ==
  \/ CaGenerate
  \/ CaPick

CaFairSpec ==
  CaInit /\ [][CaNext]_vars /\ WF_vars(CaGenerate) /\ WF_vars(CaPick)

\* The selection loop can never end: `b === a` holds for every draw.
CaPickStuck ==
  /\ generatorId = "cellular_automata"
  /\ pcGen = "pick"
  /\ PickDistinctIndices(grid) = {}

\* C39: every call of cellular_automata.generateSync returns a spec, whatever
\* the fill and whatever number of passages the iterations leave.
C39_CaAlwaysReturns ==
  (generatorId = "cellular_automata" /\ pcGen = "run")
    ~> (generatorId = "cellular_automata" /\ pcGen = "returned")

\* ==========================================================================
\* kruskal.generateSync, edge by edge (KruskalSpec)
\* ==========================================================================
RECURSIVE Orders(_)
\* What the shuffle loop can leave: every order of the edges.
Orders(S) ==
  IF S = {} THEN {<<>>}
  ELSE UNION {{<<e>> \o rest : rest \in Orders(S \ {e})} : e \in S}

\* Every grid of up to MaxRows rows and MaxCols columns with two cells or
\* more.
KruskalShapes == {sh \in (1..MaxRows) \X (1..MaxCols) : sh[1] * sh[2] >= 2}

\* The state of generateSync before its carve loop, for either offset and
\* any outcome of the shuffle.
KruskalRuns ==
  UNION {{[rows |-> sh[1], cols |-> sh[2],
           rooms |-> Rooms(sh[1], sh[2], offset), edges |-> es] :
            es \in Orders(KruskalEdges(sh[1], sh[2], offset))} :
         sh \in KruskalShapes, offset \in {0, 1}}

KruskalInit ==
  /\ OthersOff
  /\ callee = "kruskal"
  /\ args \in KruskalRuns
  /\ wire = <<>>
  /\ result = [parent |-> [q \in args.rooms |-> q],
               grid |-> [p \in Cells(args.rows, args.cols) |->
                           IF p \in args.rooms THEN 1 ELSE 0],
               i |-> 0]
  /\ pcCall = "carve"

\* One pass of the carve loop, on edge i of the shuffled edges.
KruskalEdge ==
  /\ callee = "kruskal"
  /\ pcCall = "carve"
  /\ result.i < Len(args.edges)
  /\ LET st == KruskalOne([parent |-> result.parent, grid |-> result.grid],
                         args.edges[result.i + 1])
     IN  result' = [parent |-> st.parent, grid |-> st.grid, i |-> result.i + 1]
  /\ UNCHANGED <<pipelineVars, mazeVars, rngVars, callee, args, wire, pcCall>>

\* The carve loop has no edge left.
KruskalCarved ==
  /\ callee = "kruskal"
  /\ pcCall = "carve"
  /\ result.i = Len(args.edges)
  /\ pcCall' = "carved"
  /\ UNCHANGED <<pipelineVars, mazeVars, rngVars, callee, args, wire, result>>

KruskalNext ==
  \/ KruskalEdge
  \/ KruskalCarved

KruskalSpec == KruskalInit /\ [][KruskalNext]_vars

\* Two rooms are in the same union-find set.
SameSet(parent, a, b) == Find(parent, a).root = Find(parent, b).root

\* The carve loop is over with every room in one set, one carved wall fewer
\* than rooms, and the passages a tree that holds every room.
SpanningTree ==
  /\ \A a, b \in args.rooms : SameSet(result.parent, a, b)
  /\ Cardinality(Passages(result.grid) \ args.rooms)
       = Cardinality(args.rooms) - 1
  /\ args.rooms \subseteq Passages(result.grid)
  /\ IsTree(result.grid)

\* A pass that changes the grid carves the wall of its edge, and the rooms
\* of that edge were in different sets before it.
CarvedOnlyBetweenSets ==
  [][(callee = "kruskal" /\ result'.grid # result.grid)
       => LET e == args.edges[result'.i]
          IN  /\ ~SameSet(result.parent, e.u, e.v)
              /\ result'.grid = [result.grid EXCEPT ![e.w] = 1]]_vars

\* C36 as stated: after the carve loop the rooms are in one set and the
\* passages are a spanning tree of them with rooms - 1 carved walls, for
\* every shuffle order and every grid; a wall is carved only between rooms
\* of different sets.
C36_SpanningTreeAlways ==
  /\ []((callee = "kruskal" /\ pcCall = "carved") => SpanningTree)
  /\ CarvedOnlyBetweenSets

\* C36: the same when the grid has at least one room.  (Offset 1 on a grid
\* of one row or one column gives no room: nothing is carved, which is not
\* rooms - 1 walls.)
C36_SpanningTreeOfRooms ==
  /\ []((callee = "kruskal" /\ pcCall = "carved" /\ args.rooms # {})
         => SpanningTree)
  /\ CarvedOnlyBetweenSets

\* The carve loop is over on a grid of six rooms and seven edges: two of
\* the edges were skipped.
C36_Witness ==
  /\ callee = "kruskal"
  /\ pcCall = "carved"
  /\ Cardinality(args.rooms) = 6
  /\ Len(args.edges) = 7
  /\ Cardinality(Passages(result.grid)) = 11

=============================================================================
